--------------------------- MODULE ApiKeys_proofs ---------------------------
(***************************************************************************)
(* For any number of keys, users, projects, validations and updates: what  *)
(* the shared cache may still say of a key whose row has changed, and the  *)
(* one way a revoked key is made active again.                             *)
(***************************************************************************)
EXTENDS ApiKeys, TLAPS

\* An update holds a key that was made: there is no way to unmake one.
EditsMade == \A e \in edits : row[e.key].made

\* What the cache holds, or is about to hold, is true or accounted for.
Covered(k) == (\E d \in drops : k \in KeysOf(d)) \/ k \in strays
Good(k) == validate_api_key_lookup(k) \/ Covered(k)
HeldFollows == \A k \in Keys : Held(k) => Good(k)
IInv == KeysTypeOK /\ EditsMade /\ HeldFollows

\* An update that is to reactivate its key finds it as it read it, and alone, or
\* the key is one of those two such updates met at.
Lone(e) == ~row[e.key].active /\ ~row[e.key].revoked /\ \A f \in edits : f.key = e.key /\ f.revive => f = e
RevivesLapsed == \A e \in edits : e.revive => Lone(e) \/ e.key \in races
RInv == KeysTypeOK /\ EditsMade /\ RevivesLapsed /\ RevivedOnlyByRace

-----------------------------------------------------------------------------
(* The answer of the lookup *)

LEMMA Lookup ==
  ASSUME NEW k
  PROVE  validate_api_key_lookup(k) <=>
           /\ row[k].made /\ row[k].active /\ row[k].expires # "past"
           /\ Owner[k] \in uact /\ HasAccess(Owner[k], Home[k])
  BY DEF validate_api_key_lookup, ValidationStatus

LEMMA LookupAfter ==
  ASSUME NEW k
  PROVE  validate_api_key_lookup(k)' <=>
           /\ row'[k].made /\ row'[k].active /\ row'[k].expires # "past"
           /\ Owner[k] \in uact' /\ HasAccess(Owner[k], Home[k])'
  BY DEF validate_api_key_lookup, ValidationStatus

LEMMA SameLookup ==
  ASSUME NEW k, row'[k] = row[k], UNCHANGED live
  PROVE  validate_api_key_lookup(k)' <=> validate_api_key_lookup(k)
<1>1. HasAccess(Owner[k], Home[k])' <=> HasAccess(Owner[k], Home[k])
  BY DEF HasAccess, live
<1>2. uact' = uact
  BY DEF live
<1> HIDE DEF HasAccess
<1> QED BY <1>1, <1>2, Lookup, LookupAfter

\* Steps that touch no row, account or access and drop no invalidation.
LEMMA Quiet ==
  ASSUME HeldFollows, UNCHANGED <<live, row>>, \A k \in Keys : Held(k)' => Held(k),
         drops \subseteq drops', \A k \in Keys : Held(k)' /\ k \in strays => k \in strays'
  PROVE  HeldFollows'
<1>1. ASSUME NEW k \in Keys, Held(k)' PROVE Good(k)'
  <2>1. Good(k)
    BY <1>1 DEF HeldFollows
  <2>2. validate_api_key_lookup(k)' <=> validate_api_key_lookup(k)
    BY SameLookup
  <2>3. Covered(k) => Covered(k)'
    BY <1>1 DEF Covered, KeysOf
  <2> QED BY <2>1, <2>2, <2>3 DEF Good
<1> QED BY <1>1 DEF HeldFollows

\* Steps that change one row and drop no invalidation.
LEMMA OneRow ==
  ASSUME HeldFollows, NEW k \in Keys, UNCHANGED <<live, cached, checks>>,
         drops \subseteq drops', strays \subseteq strays', \A j \in Keys \ {k} : row'[j] = row[j],
         Held(k) => Good(k)'
  PROVE  HeldFollows'
<1>1. \A j \in Keys : Held(j)' <=> Held(j)
  BY DEF Held, InFlight
<1>2. ASSUME NEW j \in Keys, Held(j)', j # k PROVE Good(j)'
  <2>1. Good(j)
    BY <1>1, <1>2 DEF HeldFollows
  <2>2. validate_api_key_lookup(j)' <=> validate_api_key_lookup(j)
    BY <1>2, SameLookup
  <2>3. Covered(j) => Covered(j)'
    BY DEF Covered, KeysOf
  <2> QED BY <2>1, <2>2, <2>3 DEF Good
<1> QED BY <1>1, <1>2 DEF HeldFollows

\* Steps that end accounts or access and account for the keys they end themselves.
LEMMA Lapses ==
  ASSUME HeldFollows, NEW K, Unannounced(K),
         \A k \in Keys \ K : validate_api_key_lookup(k) => validate_api_key_lookup(k)'
  PROVE  HeldFollows'
<1>1. UNCHANGED <<row, cached, checks, drops>> /\ strays' = strays \cup Lapse(K)
  BY DEF Unannounced
<1>2. ASSUME NEW k \in Keys, Held(k)' PROVE Good(k)'
  <2>1. Held(k) /\ Good(k)
    BY <1>1, <1>2 DEF HeldFollows, Held, InFlight
  <2>2. Covered(k) => Covered(k)'
    BY <1>1 DEF Covered, KeysOf
  <2>3. CASE k \in K
    BY <1>1, <2>1, <2>3 DEF Lapse, Good, Covered
  <2>4. CASE k \notin K
    BY <2>1, <2>2, <2>4 DEF Good
  <2> QED BY <2>3, <2>4
<1> QED BY <1>2 DEF HeldFollows

-----------------------------------------------------------------------------
(* The writes of the routes *)

LEMMA RevokeCache ==
  ASSUME KeysTypeOK, HeldFollows, NEW k \in Keys, revoke_api_key_with_cache_invalidation(k)
  PROVE  HeldFollows'
<1>1. /\ UNCHANGED <<live, cached, checks, strays>> /\ drops \subseteq drops' /\ <<"revoke", k>> \in drops'
      /\ \A j \in Keys \ {k} : row'[j] = row[j]
  BY DEF revoke_api_key_with_cache_invalidation, KeysTypeOK
<1>2. Good(k)'
  BY <1>1 DEF Good, Covered, KeysOf
<1> QED BY <1>1, <1>2, OneRow

LEMMA CreateCache ==
  ASSUME KeysTypeOK, HeldFollows, NEW a, NEW k \in Keys, NEW exp, create_api_key(a, k, exp)
  PROVE  HeldFollows'
<1>1. /\ UNCHANGED <<live, cached, checks, strays, drops>> /\ ~row[k].made
      /\ \A j \in Keys \ {k} : row'[j] = row[j]
  BY DEF create_api_key, KeysTypeOK
<1>2. Held(k) => Covered(k)
  BY <1>1, Lookup DEF HeldFollows, Good
<1>3. Covered(k) => Covered(k)'
  BY <1>1 DEF Covered, KeysOf
<1> QED BY <1>1, <1>2, <1>3, OneRow DEF Good

LEMMA UpdateCache ==
  ASSUME KeysTypeOK, HeldFollows, NEW e \in edits, update_api_key(e)
  PROVE  HeldFollows'
<1> DEFINE k == e.key
<1>1. k \in Keys /\ e.expires \in {"future", "keep"} /\ row[k] \in Row
  BY DEF KeysTypeOK, Edit
<1> HIDE DEF k
<1>2. /\ UNCHANGED <<live, cached, checks, strays>> /\ drops \subseteq drops'
      /\ \A j \in Keys \ {k} : row'[j] = row[j]
      /\ e.expires # "keep" => <<"update", k>> \in drops'
      /\ row'[k] = [row[k] EXCEPT !.active = row[k].active \/ e.revive,
                                  !.expires = IF e.expires = "keep" THEN row[k].expires ELSE e.expires]
  BY <1>1 DEF update_api_key, KeysTypeOK, k
<1>3. CASE e.expires # "keep"
  <2>1. Good(k)'
    BY <1>1, <1>2, <1>3 DEF Good, Covered, KeysOf
  <2> QED BY <1>1, <1>2, <2>1, OneRow
<1>4. CASE e.expires = "keep"
  <2>1. /\ row'[k].made = row[k].made /\ row'[k].expires = row[k].expires
        /\ row[k].active => row'[k].active
    BY <1>1, <1>2, <1>4 DEF Row
  <2>2. validate_api_key_lookup(k) => validate_api_key_lookup(k)'
    BY <1>2, <2>1, Lookup, LookupAfter DEF HasAccess, live
  <2>3. Covered(k) => Covered(k)'
    BY <1>2 DEF Covered, KeysOf
  <2>4. Held(k) => Good(k)'
    BY <1>1, <2>2, <2>3 DEF HeldFollows, Good
  <2> QED BY <1>1, <1>2, <2>4, OneRow
<1> QED BY <1>3, <1>4

LEMMA CleanupCache ==
  ASSUME KeysTypeOK, HeldFollows, cleanup_expired_api_keys
  PROVE  HeldFollows'
<1>1. UNCHANGED <<live, cached, checks, strays, drops>>
  BY DEF cleanup_expired_api_keys
<1>2. ASSUME NEW k \in Keys, Held(k)' PROVE Good(k)'
  <2>1. row[k] \in Row /\ Good(k)
    BY <1>1, <1>2 DEF KeysTypeOK, HeldFollows, Held, InFlight
  <2>2. validate_api_key_lookup(k) => validate_api_key_lookup(k)'
    <3>1. /\ row'[k].made = row[k].made /\ row'[k].expires = row[k].expires
          /\ row[k].active /\ row[k].expires # "past" => row'[k].active
      BY <2>1 DEF cleanup_expired_api_keys, Row
    <3> QED BY <1>1, <3>1, Lookup, LookupAfter DEF HasAccess, live
  <2>3. Covered(k) => Covered(k)'
    BY <1>1 DEF Covered, KeysOf
  <2> QED BY <2>1, <2>2, <2>3 DEF Good
<1> QED BY <1>2 DEF HeldFollows

-----------------------------------------------------------------------------
(* The cache *)

\* A validation starts only for a key the lookup found valid.
LEMMA LookupCache ==
  ASSUME KeysTypeOK, HeldFollows, NEW k, NEW mode, validate_api_key_context(k, mode)
  PROVE  HeldFollows'
<1> DEFINE c == [key |-> k, mode |-> mode, step |-> "owner"]
<1>1. /\ UNCHANGED <<live, row, cached, drops, strays>> /\ checks' = checks \cup {c}
      /\ validate_api_key_lookup(k)
  BY DEF validate_api_key_context
<1>2. c.key = k
  OBVIOUS
<1> HIDE DEF c
<1>3. ASSUME NEW j \in Keys, Held(j)' PROVE Good(j)'
  <2>1. validate_api_key_lookup(j)' <=> validate_api_key_lookup(j)
    BY <1>1, SameLookup
  <2>2. Covered(j) => Covered(j)'
    BY <1>1 DEF Covered, KeysOf
  <2>3. Held(j) \/ j = k
    BY <1>1, <1>2, <1>3 DEF Held, InFlight
  <2> QED BY <1>1, <2>1, <2>2, <2>3 DEF HeldFollows, Good
<1> QED BY <1>3 DEF HeldFollows

LEMMA OwnerCache ==
  ASSUME KeysTypeOK, HeldFollows, NEW c \in checks, ResolveOwner(c) PROVE HeldFollows'
<1>1. /\ UNCHANGED <<live, row, cached, drops>> /\ strays' = {k \in strays : Held(k)'}
      /\ checks' \subseteq (checks \ {c}) \cup {[c EXCEPT !.step = "store"]}
  BY DEF ResolveOwner
<1>2. [c EXCEPT !.step = "store"].key = c.key
  BY DEF KeysTypeOK, Check
<1>3. \A k \in Keys : Held(k)' => Held(k)
  BY <1>1, <1>2 DEF Held, InFlight
<1> QED BY <1>1, <1>3, Quiet

LEMMA StoreCache ==
  ASSUME KeysTypeOK, HeldFollows, NEW c \in checks, set_api_key(c)
  PROVE  HeldFollows'
<1>1. /\ UNCHANGED <<live, row, drops, strays>> /\ cached' = cached \cup {c.key} /\ checks' \subseteq checks
  BY DEF set_api_key
<1>2. \A k \in Keys : Held(k)' => Held(k)
  BY <1>1 DEF Held, InFlight
<1> QED BY <1>1, <1>2, Quiet

\* An invalidation goes from `drops' with the keys it covers, or leaves them named.
LEMMA DropCache ==
  ASSUME KeysTypeOK, HeldFollows, NEW d \in drops, invalidate_api_key(d) \/ InvalidationLost(d)
  PROVE  HeldFollows'
<1>1. /\ UNCHANGED <<live, row, checks>> /\ drops' = drops \ {d} /\ cached' \subseteq cached
  BY DEF invalidate_api_key, InvalidationLost
<1>2. ASSUME NEW k \in Keys PROVE Held(k)' => Held(k)
  BY <1>1 DEF Held, InFlight
<1>3. ASSUME NEW k \in Keys, Held(k)' PROVE Good(k)'
  <2>1. Held(k) /\ Good(k) /\ (validate_api_key_lookup(k)' <=> validate_api_key_lookup(k))
    BY <1>1, <1>2, <1>3, SameLookup DEF HeldFollows
  <2>2. CASE k \in KeysOf(d)
    <3>1. CASE invalidate_api_key(d)
      <4>1. k \notin cached'
        BY <2>2, <3>1 DEF invalidate_api_key
      <4>2. InFlight(k)
        BY <1>1, <1>3, <4>1 DEF Held, InFlight
      <4> QED BY <2>2, <3>1, <4>2 DEF invalidate_api_key, Good, Covered
    <3>2. CASE InvalidationLost(d)
      BY <2>1, <2>2, <3>2 DEF InvalidationLost, Lapse, Good, Covered
    <3> QED BY <3>1, <3>2
  <2>3. CASE k \notin KeysOf(d)
    <3>1. k \in strays => k \in strays'
      BY <2>3 DEF invalidate_api_key, InvalidationLost
    <3>2. Covered(k) => Covered(k)'
      BY <1>1, <2>3, <3>1 DEF Covered, KeysOf
    <3> QED BY <2>1, <3>2 DEF Good
  <2> QED BY <2>2, <2>3
<1> QED BY <1>3 DEF HeldFollows

LEMMA ExpiryCache ==
  ASSUME KeysTypeOK, HeldFollows, NEW k, CacheExpires(k) PROVE HeldFollows'
<1>1. /\ UNCHANGED <<live, row, checks, drops>> /\ cached' = cached \ {k} /\ strays' = {j \in strays : Held(j)'}
  BY DEF CacheExpires
<1>2. \A j \in Keys : Held(j)' => Held(j)
  BY <1>1 DEF Held, InFlight
<1> QED BY <1>1, <1>2, Quiet

-----------------------------------------------------------------------------
(* The rest of the system *)

LEMMA AccessCache ==
  ASSUME KeysTypeOK, HeldFollows, NEW u \in Users, NEW p \in Projects, invalidate_project_api_keys(u, p)
  PROVE  HeldFollows'
<1>1. /\ UNCHANGED <<uact, gone, row, cached, checks, strays>> /\ drops \subseteq drops' /\ <<"group", p>> \in drops'
      /\ \A t : t # <<u, p>> => (t \in access' <=> t \in access)
  BY DEF invalidate_project_api_keys
<1>2. ASSUME NEW k \in Keys, Held(k)' PROVE Good(k)'
  <2>1. Good(k)
    BY <1>1, <1>2 DEF HeldFollows, Held, InFlight
  <2>2. CASE Home[k] = p
    BY <1>1, <2>2 DEF Good, Covered, KeysOf
  <2>3. CASE Home[k] # p
    <3>1. <<Owner[k], Home[k]>> # <<u, p>>
      BY <2>3
    <3>2. HasAccess(Owner[k], Home[k])' <=> HasAccess(Owner[k], Home[k])
      BY <1>1, <3>1 DEF HasAccess
    <3>3. validate_api_key_lookup(k)' <=> validate_api_key_lookup(k)
      BY <1>1, <3>2, Lookup, LookupAfter
    <3>4. Covered(k) => Covered(k)'
      BY <1>1 DEF Covered, KeysOf
    <3> QED BY <2>1, <3>3, <3>4 DEF Good
  <2> QED BY <2>2, <2>3
<1> QED BY <1>2 DEF HeldFollows

LEMMA AccountCache ==
  ASSUME KeysTypeOK, HeldFollows, NEW u, DeactivateOwner(u) PROVE HeldFollows'
<1> DEFINE K == {k \in Keys : Owner[k] = u}
<1>1. Unannounced(K) /\ UNCHANGED <<access, gone>> /\ uact' = uact \ {u}
  BY DEF DeactivateOwner
<1>2. ASSUME NEW k \in Keys \ K, validate_api_key_lookup(k) PROVE validate_api_key_lookup(k)'
  <2>1. row' = row /\ Owner[k] # u
    BY <1>1 DEF Unannounced
  <2>2. HasAccess(Owner[k], Home[k]) => HasAccess(Owner[k], Home[k])'
    BY <1>1 DEF HasAccess
  <2> HIDE DEF K, HasAccess
  <2> QED BY <1>1, <1>2, <2>1, <2>2, Lookup, LookupAfter
<1> HIDE DEF K
<1> QED BY <1>1, <1>2, Lapses

LEMMA DeletedCache ==
  ASSUME KeysTypeOK, HeldFollows, NEW a, NEW p, delete_project(a, p) PROVE HeldFollows'
<1> DEFINE K == {k \in Keys : Home[k] = p}
<1>1. Unannounced(K) /\ uact' = uact /\ gone' = gone \cup {p} /\ access' = {t \in access : t[2] # p}
  BY DEF delete_project
<1>2. ASSUME NEW k \in Keys \ K, validate_api_key_lookup(k) PROVE validate_api_key_lookup(k)'
  <2>1. row' = row /\ Home[k] # p
    BY <1>1 DEF Unannounced
  <2>2. HasAccess(Owner[k], Home[k]) => HasAccess(Owner[k], Home[k])'
    BY <1>1, <2>1 DEF HasAccess
  <2> HIDE DEF K, HasAccess
  <2> QED BY <1>1, <1>2, <2>1, <2>2, Lookup, LookupAfter
<1> HIDE DEF K
<1> QED BY <1>1, <1>2, Lapses

LEMMA RemovedCache ==
  ASSUME KeysTypeOK, HeldFollows, NEW u, NEW p, remove_admin_from_project(u, p) PROVE HeldFollows'
<1> DEFINE K == {k \in Keys : Owner[k] = u /\ Home[k] = p}
<1>1. Unannounced(K) /\ UNCHANGED <<uact, gone>> /\ access' = access \ {<<u, p>>}
  BY DEF remove_admin_from_project
<1>2. ASSUME NEW k \in Keys \ K, validate_api_key_lookup(k) PROVE validate_api_key_lookup(k)'
  <2>1. row' = row /\ <<Owner[k], Home[k]>> # <<u, p>>
    BY <1>1 DEF Unannounced
  <2>2. HasAccess(Owner[k], Home[k]) => HasAccess(Owner[k], Home[k])'
    BY <1>1, <2>1 DEF HasAccess
  <2> HIDE DEF K, HasAccess
  <2> QED BY <1>1, <1>2, <2>1, <2>2, Lookup, LookupAfter
<1> HIDE DEF K
<1> QED BY <1>1, <1>2, Lapses

LEMMA TimeCache ==
  ASSUME KeysTypeOK, HeldFollows, NEW k \in Keys, TimePasses(k) PROVE HeldFollows'
<1>1. /\ UNCHANGED <<live, cached, checks, drops>> /\ strays' = strays \cup Lapse({k})
      /\ \A j \in Keys \ {k} : row'[j] = row[j]
  BY DEF TimePasses, KeysTypeOK
<1>2. Held(k) => Good(k)'
  BY <1>1 DEF Lapse, Good, Covered
<1> QED BY <1>1, <1>2, OneRow

-----------------------------------------------------------------------------
(* The next-state relation, without who may ask *)

KeyStep(k) ==
    \/ revoke_api_key_with_cache_invalidation(k)
    \/ \E a \in Users, exp \in {"never", "future"} : create_api_key(a, k, exp)
    \/ \E exp \in {"future", "keep"}, i \in 1 .. MaxEdits : row[k].made /\ BeginUpdate(i, k, exp)
    \/ \E mode \in {"verify", "context"} : validate_api_key_context(k, mode)
    \/ CacheExpires(k) \/ TimePasses(k)
FlightStep ==
    \/ \E e \in edits : update_api_key(e)
    \/ cleanup_expired_api_keys
    \/ \E c \in checks : ResolveOwner(c) \/ set_api_key(c)
    \/ \E d \in drops : invalidate_api_key(d) \/ InvalidationLost(d)
AccountStep ==
    \E u \in Users :
      \/ DeactivateOwner(u)
      \/ \E p \in Projects : invalidate_project_api_keys(u, p) \/ delete_project(u, p) \/ remove_admin_from_project(u, p)

LEMMA NextCases == Next => (\E k \in Keys : KeyStep(k)) \/ FlightStep \/ AccountStep
<1>1. ASSUME NEW a \in Users, NEW k \in Keys,
             admin_revoke_api_key(a, k) \/ user_revoke_api_key(a, k)
      PROVE  KeyStep(k)
  BY <1>1 DEF admin_revoke_api_key, user_revoke_api_key, KeyStep
<1>2. ASSUME NEW a \in Users, NEW k \in Keys, NEW exp \in {"never", "future"},
             admin_create_api_key(a, k, exp) \/ user_create_api_key(a, k, exp)
      PROVE  KeyStep(k)
  BY <1>2 DEF admin_create_api_key, user_create_api_key, KeyStep
<1>3. ASSUME NEW a \in Users, NEW k \in Keys, NEW exp \in {"future", "keep"}, NEW i \in 1 .. MaxEdits,
             admin_update_api_key(i, a, k, exp) \/ user_update_api_key(i, a, k, exp)
      PROVE  KeyStep(k)
  BY <1>3 DEF admin_update_api_key, user_update_api_key, KeyStep, get_api_key_by_public_id
<1>4. ASSUME NEW k \in Keys, (\E mode \in {"verify", "context"} : validate_api_key_context(k, mode))
                             \/ CacheExpires(k) \/ TimePasses(k)
      PROVE  KeyStep(k)
  BY <1>4 DEF KeyStep
<1> QED BY <1>1, <1>2, <1>3, <1>4 DEF Next, FlightStep, AccountStep

-----------------------------------------------------------------------------
(* Types *)

LEMMA KeyTypes ==
  ASSUME KeysTypeOK, EditsMade, NEW k \in Keys, KeyStep(k) PROVE KeysTypeOK' /\ EditsMade'
<1>1. CASE revoke_api_key_with_cache_invalidation(k)
  <2>1. row[k] \in Row /\ row[k].made
    BY <1>1 DEF revoke_api_key_with_cache_invalidation, KeysTypeOK
  <2> DEFINE s == [row[k] EXCEPT !.active = FALSE, !.revoked = TRUE]
  <2>2. s \in Row /\ s.made
    BY <2>1 DEF Row
  <2>3. row' = [row EXCEPT ![k] = s] /\ drops' = drops \cup {<<"revoke", k>>}
        /\ UNCHANGED <<live, cached, checks, edits, strays, races, changes>>
    BY <1>1 DEF revoke_api_key_with_cache_invalidation, KeysTypeOK
  <2> HIDE DEF s
  <2>4. row' \in [Keys -> Row] /\ (\A j \in Keys : row[j].made => row'[j].made)
        /\ \A j \in Keys : row'[j].active \/ row'[j].revoked => row'[j].made
    BY <2>1, <2>2, <2>3 DEF KeysTypeOK
  <2>5. drops' \subseteq Drop
    BY <2>3 DEF KeysTypeOK, Drop
  <2> QED BY <2>3, <2>4, <2>5 DEF KeysTypeOK, EditsMade, Edit, live
<1>2. ASSUME NEW a \in Users, NEW exp \in {"never", "future"}, create_api_key(a, k, exp)
      PROVE  KeysTypeOK' /\ EditsMade'
  BY <1>2 DEF create_api_key, KeysTypeOK, EditsMade, Row, Expiry, Edit, live
<1>3. ASSUME NEW exp \in {"future", "keep"}, NEW i \in 1 .. MaxEdits, row[k].made, BeginUpdate(i, k, exp)
      PROVE  KeysTypeOK' /\ EditsMade'
  <2>0. PICK e : e = [id |-> i, key |-> k, expires |-> exp, revive |-> Revives(k, exp)]
    OBVIOUS
  <2>1. e \in Edit /\ e.key = k
    BY <2>0 DEF Edit, Revives
  <2>2. /\ edits' = edits \cup {e} /\ races' \subseteq races \cup {k}
        /\ UNCHANGED <<live, row, cached, checks, drops, strays, changes>>
    BY <1>3, <2>0 DEF BeginUpdate, TakeUp
  <2> QED BY <1>3, <2>1, <2>2 DEF KeysTypeOK, EditsMade, live
<1>4. ASSUME NEW mode \in {"verify", "context"}, validate_api_key_context(k, mode)
      PROVE  KeysTypeOK' /\ EditsMade'
  BY <1>4 DEF validate_api_key_context, KeysTypeOK, EditsMade, Check, live
<1>5. CASE CacheExpires(k)
  BY <1>5 DEF CacheExpires, KeysTypeOK, EditsMade, live
<1>6. CASE TimePasses(k)
  BY <1>6 DEF TimePasses, KeysTypeOK, EditsMade, Row, Expiry, Edit, Lapse, live
<1> QED BY <1>1, <1>2, <1>3, <1>4, <1>5, <1>6 DEF KeyStep

LEMMA FlightTypes == ASSUME KeysTypeOK, EditsMade, FlightStep PROVE KeysTypeOK' /\ EditsMade'
<1>1. ASSUME NEW e \in edits, update_api_key(e) PROVE KeysTypeOK' /\ EditsMade'
  <2>1. e \in Edit /\ e.key \in Keys /\ row[e.key].made /\ e.expires \in {"future", "keep"} /\ e.revive \in BOOLEAN
    BY DEF KeysTypeOK, EditsMade, Edit
  <2> DEFINE r == [row[e.key] EXCEPT !.active = row[e.key].active \/ e.revive,
                                     !.expires = IF e.expires = "keep" THEN row[e.key].expires ELSE e.expires]
  <2>2. r \in Row /\ r.made
    <3>1. row[e.key] \in Row /\ {"future"} \cup {row[e.key].expires} \subseteq Expiry
      BY <2>1 DEF KeysTypeOK, Row, Expiry
    <3>2. /\ (row[e.key].active \/ e.revive) \in BOOLEAN
          /\ (IF e.expires = "keep" THEN row[e.key].expires ELSE e.expires) \in Expiry
      BY <2>1, <3>1
    <3> HIDE DEF Expiry
    <3> QED BY <2>1, <3>1, <3>2 DEF Row
  <2>3. row' = [row EXCEPT ![e.key] = r]
    BY <1>1, <2>1 DEF update_api_key, KeysTypeOK
  <2>4. /\ UNCHANGED <<live, cached, checks, strays, races, changes>> /\ edits' = edits \ {e}
        /\ drops' \subseteq drops \cup {<<"update", e.key>>}
    BY <1>1 DEF update_api_key
  <2> HIDE DEF r
  <2>5. row' \in [Keys -> Row] /\ \A k \in Keys : row[k].made => row'[k].made
    BY <2>1, <2>2, <2>3 DEF KeysTypeOK
  <2>6. \A k \in Keys : row'[k].active \/ row'[k].revoked => row'[k].made
    BY <2>1, <2>2, <2>3 DEF KeysTypeOK
  <2>7. drops' \subseteq Drop
    BY <2>1, <2>4 DEF KeysTypeOK, Drop
  <2>8. EditsMade'
    BY <2>4, <2>5 DEF EditsMade, KeysTypeOK, Edit
  <2> QED BY <2>4, <2>5, <2>6, <2>7, <2>8 DEF KeysTypeOK, live
<1>2. CASE cleanup_expired_api_keys
  <2>1. ASSUME NEW k \in Keys
        PROVE  /\ row'[k] \in Row /\ row'[k].made = row[k].made
               /\ row'[k].active \/ row'[k].revoked => row'[k].made
    BY <1>2 DEF cleanup_expired_api_keys, KeysTypeOK, Row
  <2>2. UNCHANGED <<live, cached, checks, edits, drops, strays, races, changes>> /\ DOMAIN row' = Keys
        /\ row' = [k \in Keys |-> row'[k]]
    BY <1>2 DEF cleanup_expired_api_keys
  <2>3. row' \in [Keys -> Row]
    BY <2>1, <2>2
  <2> QED BY <2>1, <2>2, <2>3 DEF KeysTypeOK, EditsMade, Edit, live
<1>3. ASSUME NEW c \in checks, ResolveOwner(c) PROVE KeysTypeOK' /\ EditsMade'
  <2>1. [c EXCEPT !.step = "store"] \in Check
    BY DEF KeysTypeOK, Check
  <2> QED BY <1>3, <2>1 DEF ResolveOwner, KeysTypeOK, EditsMade, live
<1>4. ASSUME NEW c \in checks, set_api_key(c) PROVE KeysTypeOK' /\ EditsMade'
  BY <1>4 DEF set_api_key, KeysTypeOK, EditsMade, Check, live
<1>5. ASSUME NEW d \in drops, invalidate_api_key(d) \/ InvalidationLost(d) PROVE KeysTypeOK' /\ EditsMade'
  BY <1>5 DEF invalidate_api_key, InvalidationLost, KeysTypeOK, EditsMade, KeysOf, Lapse, live
<1> QED BY <1>1, <1>2, <1>3, <1>4, <1>5 DEF FlightStep

LEMMA AccountTypes == ASSUME KeysTypeOK, EditsMade, AccountStep PROVE KeysTypeOK' /\ EditsMade'
<1>1. MaxChanges \in Nat
  BY KeyAssumption
<1>2. PICK u \in Users :
        \/ DeactivateOwner(u)
        \/ \E p \in Projects : invalidate_project_api_keys(u, p) \/ delete_project(u, p) \/ remove_admin_from_project(u, p)
  BY DEF AccountStep
<1>3. ASSUME NEW p \in Projects, invalidate_project_api_keys(u, p)
      PROVE  KeysTypeOK' /\ EditsMade'
  BY <1>1, <1>3 DEF invalidate_project_api_keys, Change, KeysTypeOK, EditsMade, Drop
<1>4. ASSUME NEW K, K \subseteq Keys, Unannounced(K), uact' \subseteq uact, access' \subseteq access, gone' \subseteq Projects
      PROVE  KeysTypeOK' /\ EditsMade'
  BY <1>1, <1>4 DEF Unannounced, Lapse, Change, KeysTypeOK, EditsMade
<1>5. CASE DeactivateOwner(u)
  BY <1>4, <1>5 DEF DeactivateOwner, KeysTypeOK
<1>6. ASSUME NEW p \in Projects, delete_project(u, p) PROVE KeysTypeOK' /\ EditsMade'
  BY <1>4, <1>6 DEF delete_project, KeysTypeOK
<1>7. ASSUME NEW p \in Projects, remove_admin_from_project(u, p) PROVE KeysTypeOK' /\ EditsMade'
  BY <1>4, <1>7 DEF remove_admin_from_project, KeysTypeOK
<1> QED BY <1>2, <1>3, <1>5, <1>6, <1>7

LEMMA TypeStep == KeysTypeOK /\ EditsMade /\ [Next]_vars => KeysTypeOK' /\ EditsMade'
<1> SUFFICES ASSUME KeysTypeOK, EditsMade, [Next]_vars PROVE KeysTypeOK' /\ EditsMade'
  OBVIOUS
<1>1. CASE UNCHANGED vars
  BY <1>1 DEF vars, KeysTypeOK, EditsMade
<1>2. CASE Next
  BY <1>2, NextCases, KeyTypes, FlightTypes, AccountTypes
<1> QED BY <1>1, <1>2

-----------------------------------------------------------------------------
(* The cache follows the rows *)

LEMMA CacheStep == KeysTypeOK /\ HeldFollows /\ [Next]_vars => HeldFollows'
<1> SUFFICES ASSUME KeysTypeOK, HeldFollows, [Next]_vars PROVE HeldFollows'
  OBVIOUS
<1>1. (UNCHANGED <<live, row, cached, checks, drops, strays>>) => HeldFollows'
  BY Quiet DEF Held, InFlight
<1>2. CASE UNCHANGED vars
  BY <1>1, <1>2 DEF vars, live
<1>3. ASSUME NEW k \in Keys, KeyStep(k) PROVE HeldFollows'
  <2>1. ASSUME NEW exp, NEW i, BeginUpdate(i, k, exp) PROVE HeldFollows'
    BY <1>1, <2>1 DEF BeginUpdate, TakeUp
  <2> QED BY <1>3, <2>1, RevokeCache, CreateCache, LookupCache, ExpiryCache, TimeCache DEF KeyStep
<1>4. CASE FlightStep
  BY <1>4, OwnerCache, UpdateCache, CleanupCache, StoreCache, DropCache DEF FlightStep
<1>5. CASE AccountStep
  BY <1>5, AccessCache, AccountCache, DeletedCache, RemovedCache DEF AccountStep
<1> QED BY <1>2, <1>3, <1>4, <1>5, NextCases

LEMMA InitKeys == Init => IInv /\ RevivesLapsed /\ RevivedOnlyByRace
  BY KeyAssumption DEF Init, IInv, KeysTypeOK, EditsMade, HeldFollows, Held, InFlight, RevivesLapsed,
                       RevivedOnlyByRace, Row, Expiry

(* Every row, cached result and request in flight keeps its type.           *)
THEOREM TypeCorrect == Spec => []KeysTypeOK
<1>1. IInv /\ [Next]_vars => IInv'
  BY TypeStep, CacheStep DEF IInv
<1>2. IInv => KeysTypeOK
  BY DEF IInv
<1> QED BY <1>1, <1>2, InitKeys, PTL DEF Spec

(* A cached answer whose key no longer validates is about to be dropped, or *)
(* it, or the validation that stored it, was there when the key was ended   *)
(* without an invalidation, or when the invalidation ran or was lost: a     *)
(* lookup made later never stores it (set_api_key, invalidate_api_key,      *)
(* delete_project), for any number of validations and changes in flight.    *)
THEOREM CacheIsCovered == Spec => []CacheFollowsRows
<1>1. IInv /\ [Next]_vars => IInv'
  BY TypeStep, CacheStep DEF IInv
<1>2. IInv => CacheFollowsRows
  BY DEF IInv, HeldFollows, Held, Good, Covered, CacheFollowsRows, KeysTypeOK
<1> QED BY <1>1, <1>2, InitKeys, PTL DEF Spec

-----------------------------------------------------------------------------
(* What the listings say *)

LEMMA ReadsInScope == ShownInScope
<1> SUFFICES ASSUME NEW a \in Users, NEW k \in Shown(a) PROVE Owner[k] = a \/ AllowsProject(a, Home[k])
  BY DEF ShownInScope
<1>1. ASSUME k \in user_list_api_keys(a) \cup user_get_api_key(a) PROVE Owner[k] = a
  BY <1>1 DEF user_list_api_keys, user_get_api_key, list_user_api_keys, assert_key_ownership
<1>2. ASSUME NEW p, AllowsProject(a, p), NEW ao, k \in list_project_api_keys(p, ao) PROVE AllowsProject(a, Home[k])
  BY <1>2 DEF list_project_api_keys
<1>3. ASSUME NEW u, k \in scoped_user_keys(a, u) PROVE AllowsProject(a, Home[k])
  BY <1>3 DEF scoped_user_keys
<1>4. ASSUME k \in admin_list_api_keys(a) PROVE AllowsProject(a, Home[k])
  BY <1>2, <1>3, <1>4 DEF admin_list_api_keys, assert_admin_scope_for_project
<1>5. ASSUME k \in admin_get_api_key(a) PROVE AllowsProject(a, Home[k])
  BY <1>5 DEF admin_get_api_key, assert_admin_scope_for_project
<1>6. ASSUME k \in admin_list_user_api_keys(a) PROVE AllowsProject(a, Home[k])
  BY <1>3, <1>6 DEF admin_list_user_api_keys
<1>7. ASSUME k \in admin_list_project_api_keys(a) PROVE AllowsProject(a, Home[k])
  BY <1>2, <1>7 DEF admin_list_project_api_keys, assert_admin_scope_for_project
<1> QED BY <1>1, <1>4, <1>5, <1>6, <1>7 DEF Shown

\* What the updates in flight find, after a step that leaves the rows they hold no
\* more active and no more revoked than they were.
LEMMA Idle ==
  ASSUME RevivesLapsed, RevivedOnlyByRace, KeysTypeOK, edits' = edits, races' = races,
         \A k \in Keys : (row'[k].active => row[k].active) /\ row'[k].revoked = row[k].revoked
  PROVE  RevivesLapsed' /\ RevivedOnlyByRace'
<1>1. \A e \in edits : e.key \in Keys
  BY DEF KeysTypeOK, Edit
<1>2. \A e \in edits : Lone(e) => Lone(e)'
  BY <1>1 DEF Lone
<1> QED BY <1>2 DEF RevivesLapsed, RevivedOnlyByRace

LEMMA KeyRevocation ==
  ASSUME RInv, NEW k \in Keys, KeyStep(k)
  PROVE  RevivesLapsed' /\ RevivedOnlyByRace'
<1>1. CASE revoke_api_key_with_cache_invalidation(k)
  <2>1. /\ row[k].active /\ UNCHANGED <<edits, races>> /\ \A j \in Keys \ {k} : row'[j] = row[j]
        /\ ~row'[k].active
    BY <1>1 DEF revoke_api_key_with_cache_invalidation, RInv, KeysTypeOK, Row
  <2>2. \A e \in edits : e.key \in Keys
    BY DEF RInv, KeysTypeOK, Edit
  <2>3. \A e \in edits : Lone(e) => Lone(e)'
    BY <2>1, <2>2 DEF Lone
  <2> QED BY <2>1, <2>3 DEF RInv, RevivesLapsed, RevivedOnlyByRace
<1>2. ASSUME NEW a \in Users, NEW exp \in {"never", "future"}, create_api_key(a, k, exp)
      PROVE  RevivesLapsed' /\ RevivedOnlyByRace'
  <2>1. /\ ~row[k].made /\ UNCHANGED <<edits, races>> /\ \A j \in Keys \ {k} : row'[j] = row[j]
        /\ ~row'[k].revoked
    BY <1>2 DEF create_api_key, RInv, KeysTypeOK, Row
  <2>2. \A e \in edits : e.key \in Keys /\ e.key # k
    BY <2>1 DEF RInv, KeysTypeOK, Edit, EditsMade
  <2>3. \A e \in edits : Lone(e) => Lone(e)'
    BY <2>1, <2>2 DEF Lone
  <2> QED BY <2>1, <2>3 DEF RInv, RevivesLapsed, RevivedOnlyByRace
<1>3. ASSUME NEW exp \in {"future", "keep"}, NEW i \in 1 .. MaxEdits, row[k].made, BeginUpdate(i, k, exp)
      PROVE  RevivesLapsed' /\ RevivedOnlyByRace'
  <2>0. PICK e : e = [id |-> i, key |-> k, expires |-> exp, revive |-> Revives(k, exp)]
    OBVIOUS
  <2>1. e.key = k /\ e.revive = Revives(k, exp) /\ (e.revive => ~row[k].active)
    BY <2>0 DEF Revives
  <2>2. /\ edits' = edits \cup {e} /\ row' = row /\ ~row[k].revoked
        /\ races \subseteq races'
        /\ e.revive => k \in races' \/ \A f \in edits : ~(f.key = k /\ f.revive)
    BY <1>3, <2>0 DEF BeginUpdate, TakeUp
  <2>3. ASSUME NEW f \in edits, f.revive PROVE Lone(f)' \/ f.key \in races'
    <3>1. CASE f.key \in races
      BY <2>2, <3>1
    <3>2. CASE f.key = k /\ e.revive
      BY <2>2, <2>3, <3>2
    <3>3. CASE f.key \notin races /\ ~(f.key = k /\ e.revive)
      <4>1. Lone(f)
        BY <2>3, <3>3 DEF RInv, RevivesLapsed
      <4> QED BY <2>1, <2>2, <3>3, <4>1 DEF Lone
    <3> QED BY <3>1, <3>2, <3>3
  <2>4. ASSUME e.revive PROVE Lone(e)' \/ e.key \in races'
    BY <2>1, <2>2, <2>4 DEF Lone
  <2>5. RevivedOnlyByRace'
    BY <2>2 DEF RInv, RevivedOnlyByRace
  <2> QED BY <2>2, <2>3, <2>4, <2>5 DEF RevivesLapsed
<1>4. ASSUME NEW mode \in {"verify", "context"}, validate_api_key_context(k, mode)
      PROVE  RevivesLapsed' /\ RevivedOnlyByRace'
  BY <1>4, Idle DEF validate_api_key_context, RInv
<1>5. CASE CacheExpires(k)
  BY <1>5, Idle DEF CacheExpires, RInv
<1>6. CASE TimePasses(k)
  <2>1. UNCHANGED <<edits, races>> /\ \A j \in Keys : row'[j].active = row[j].active /\ row'[j].revoked = row[j].revoked
    BY <1>6 DEF TimePasses, RInv, KeysTypeOK, Row
  <2> QED BY <2>1, Idle DEF RInv
<1> QED BY <1>1, <1>2, <1>3, <1>4, <1>5, <1>6 DEF KeyStep

LEMMA FlightRevocation ==
  ASSUME RInv, FlightStep PROVE RevivesLapsed' /\ RevivedOnlyByRace'
<1>1. ASSUME NEW e \in edits, update_api_key(e) PROVE RevivesLapsed' /\ RevivedOnlyByRace'
  <2>1. /\ e.key \in Keys /\ row[e.key] \in Row /\ e.revive \in BOOLEAN
        /\ \A f \in edits : f.key \in Keys /\ f.revive \in BOOLEAN
    BY DEF RInv, KeysTypeOK, Edit
  <2>2. /\ edits' = edits \ {e} /\ races' = races
        /\ \A k \in Keys \ {e.key} : row'[k] = row[k]
        /\ row'[e.key].revoked = row[e.key].revoked
        /\ row'[e.key].active => row[e.key].active \/ e.revive
    BY <1>1, <2>1 DEF update_api_key, RInv, KeysTypeOK, Row
  <2>3. ASSUME NEW f \in edits', f.revive PROVE Lone(f)' \/ f.key \in races'
    <3>1. f \in edits /\ f # e /\ (Lone(f) \/ f.key \in races)
      BY <2>2, <2>3 DEF RInv, RevivesLapsed
    <3>2. CASE Lone(f)
      <4>1. f.key = e.key => ~e.revive
        BY <3>1, <3>2 DEF Lone
      <4>2. ~row'[f.key].active /\ ~row'[f.key].revoked
        BY <2>1, <2>2, <3>1, <3>2, <4>1 DEF Lone
      <4> QED BY <2>2, <3>2, <4>2 DEF Lone
    <3> QED BY <2>2, <3>1, <3>2
  <2>4. ASSUME NEW k \in Keys, row'[k].revoked, row'[k].active PROVE k \in races'
    <3>1. CASE row[k].active
      BY <2>1, <2>2, <2>4, <3>1 DEF RInv, RevivedOnlyByRace
    <3>2. CASE ~row[k].active
      <4>1. k = e.key /\ e.revive /\ row[k].revoked
        BY <2>1, <2>2, <2>4, <3>2
      <4>2. ~Lone(e)
        BY <4>1 DEF Lone
      <4> QED BY <2>2, <4>1, <4>2 DEF RInv, RevivesLapsed
    <3> QED BY <3>1, <3>2
  <2> QED BY <2>3, <2>4 DEF RevivesLapsed, RevivedOnlyByRace
<1>2. CASE cleanup_expired_api_keys
  <2>1. UNCHANGED <<edits, races>>
        /\ \A k \in Keys : (row'[k].active => row[k].active) /\ row'[k].revoked = row[k].revoked
    BY <1>2 DEF cleanup_expired_api_keys, RInv, KeysTypeOK, Row
  <2> QED BY <2>1, Idle DEF RInv
<1>3. CASE UNCHANGED <<row, edits, races>>
  BY <1>3, Idle DEF RInv
<1>4. (\E c \in checks : ResolveOwner(c) \/ set_api_key(c)) => UNCHANGED <<row, edits, races>>
  BY DEF ResolveOwner, set_api_key
<1>5. (\E d \in drops : invalidate_api_key(d) \/ InvalidationLost(d)) => UNCHANGED <<row, edits, races>>
  BY DEF invalidate_api_key, InvalidationLost
<1> QED BY <1>1, <1>2, <1>3, <1>4, <1>5 DEF FlightStep

(* The key routes show nobody a key out of scope, whatever the rows are;    *)
(* and no sequence of creations, updates, sweeps and revocations, however   *)
(* many overlap, makes a revoked key active again, except where two updates *)
(* both read the key as lapsed before either wrote it (sp_update_api_key    *)
(* writes what it read).                                                    *)
THEOREM Listings == Spec => []ListingsAreTrue
<1>1. Init => RInv
  BY InitKeys DEF IInv, RInv
<1>2. RInv /\ [Next]_vars => RInv'
  <2> SUFFICES ASSUME RInv, [Next]_vars PROVE RInv'
    OBVIOUS
  <2>1. KeysTypeOK' /\ EditsMade'
    BY TypeStep DEF RInv
  <2>2. CASE UNCHANGED <<row, edits, races>>
    BY <2>1, <2>2, Idle DEF RInv
  <2>3. ASSUME NEW k \in Keys, KeyStep(k) PROVE RInv'
    BY <2>1, <2>3, KeyRevocation DEF RInv
  <2>4. CASE FlightStep
    BY <2>1, <2>4, FlightRevocation DEF RInv
  <2>5. AccountStep => UNCHANGED <<row, edits, races>>
    BY DEF AccountStep, DeactivateOwner, delete_project, remove_admin_from_project, Unannounced,
           invalidate_project_api_keys
  <2> QED BY <2>2, <2>3, <2>4, <2>5, NextCases DEF vars
<1>3. RInv => ListingsAreTrue
  BY ReadsInScope DEF RInv, ListingsAreTrue
<1> QED BY <1>1, <1>2, <1>3, PTL DEF Spec
=============================================================================
