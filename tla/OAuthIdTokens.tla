---------------------------- MODULE OAuthIdTokens ----------------------------
(***************************************************************************)
(* What the code exchange and the ID token or profile must be for an       *)
(* external identity to come out of it, and the signing keys the threads   *)
(* of a process share: a cached copy of the provider's published keys,     *)
(* looked at first and fetched once more when a token names another key.   *)
(***************************************************************************)
EXTENDS Naturals, FiniteSets

CONSTANTS
    Kids,        \* ids of signing keys
    Verifiers,   \* threads that verify a token
    Tokens,      \* the ID tokens the provider's endpoint may return, each with
                 \* the type of connection it is returned to
    ClientId, Nonce, Issuers, Domains, Tenants, \* the connection; {}: no restriction
    NoToken

ASSUME TokensAssumption == NoToken \notin Tokens

VARIABLES
    published, \* the keys the provider publishes now
    entry,     \* the cached document: its keys, and whether it is still fresh
    ver,       \* verifier -> the token, where it is, and the keys it holds
    absent     \* verifiers whose token's key was not published at some time
               \* since they began

idVars == <<published, entry, ver, absent>>

Resting == [token |-> NoToken, at |-> "idle", looks |-> 0, keys |-> {}, id |-> NoToken]
KeysInit ==
    /\ published \in SUBSET Kids
    /\ entry = [keys |-> {}, fresh |-> FALSE]
    /\ ver = [v \in Verifiers |-> Resting] /\ absent = {}

Refuse(v, why) == ver' = [ver EXCEPT ![v].at = why]

----------------------------------------------------------------------------
(* Claims.                                                                  *)

\* Google and Microsoft sign with RS256; another issuer may use the RS, PS
\* and ES families.
allowed_algorithms(t) == IF t.provider = "oidc" THEN {"RS256", "ES256"} ELSE {"RS256"}
HeaderFits(t) == t.alg \in allowed_algorithms(t) /\ t.kid \in Kids

_audience_matches(t) == ClientId \in t.aud
issuer_is_valid(t) ==
    IF t.provider = "microsoft" THEN t.iss = t.tid /\ (Tenants = {} \/ t.tid \in Tenants)
                                ELSE t.iss \in Issuers
_hosted_domain_allowed(t) == Domains = {} \/ "*" \in Domains \/ t.hd \in Domains

validate_oidc_claims(t) ==
    /\ issuer_is_valid(t) /\ _audience_matches(t) /\ t.azp \in {NoToken, ClientId}
    /\ t.window = "open" /\ t.nonce = Nonce /\ t.sub # NoToken
validate_google_claims(t) ==
    validate_oidc_claims(t) /\ (t.hd # NoToken => _hosted_domain_allowed(t))
\* The second opinion of google-auth, or the same claims when it is off.
assert_google_auth_claims_agree(t) == t.agrees
verify_claims(t) ==
    IF t.provider = "google" THEN validate_google_claims(t) /\ assert_google_auth_claims_agree(t)
                             ELSE validate_oidc_claims(t)

\* The identity: its namespace is the tenant's for Microsoft, else the
\* connection's; the subject is the claim the provider is known for.
claims_namespace(t) == IF t.provider = "microsoft" THEN <<t.provider, t.tid>> ELSE <<t.provider>>
identity_from_claims(t) == [ns |-> claims_namespace(t), sub |-> t.sub]

----------------------------------------------------------------------------
(* Keys.                                                                    *)

ProviderRotates(keys) ==
    /\ published' = keys
    /\ absent' = absent \cup {v \in Verifiers : ver[v].token # NoToken /\ ver[v].token.kid \notin keys}
    /\ UNCHANGED <<entry, ver>>
DocumentExpires == /\ entry.fresh /\ entry' = [entry EXCEPT !.fresh = FALSE]
                   /\ UNCHANGED <<published, ver, absent>>

validate_jose_header(v, t) ==
    /\ ver[v].at = "idle"
    /\ ver' = [ver EXCEPT ![v] = [Resting EXCEPT !.token = t,
                                  !.at = IF HeaderFits(t) THEN "looking" ELSE "bad header"]]
    /\ absent' = IF t.kid \in published THEN absent \ {v} ELSE absent \cup {v}
    /\ UNCHANGED <<published, entry>>

\* A document that is fresh is used, except by a thread that comes back.
\* Mutation: the thread that comes back is served from the cache too.
ServedAnyway(v) == entry.fresh
Served(v) == entry.fresh /\ ver[v].looks = 0
fetch_jwks(v) ==
    /\ ver[v].at = "looking"
    /\ ver' = [ver EXCEPT ![v].looks = @ + 1,
                          ![v].keys = IF Served(v) THEN entry.keys ELSE {},
                          ![v].at = IF Served(v) THEN "finding" ELSE "fetching"]
    /\ UNCHANGED <<published, entry, absent>>

\* The request reaches the provider, or fails; no lock is held meanwhile.
guarded_get_json(v) ==
    /\ ver[v].at = "fetching"
    /\ \/ ver' = [ver EXCEPT ![v].keys = published, ![v].at = "storing"]
       \/ Refuse(v, "keys unavailable")
    /\ UNCHANGED <<published, entry, absent>>

\* The document is stored, over a newer one too; its age counts from before
\* the request, so it may be stale at once.
StoreDocument(v) ==
    /\ ver[v].at = "storing"
    /\ \E f \in BOOLEAN : entry' = [keys |-> ver[v].keys, fresh |-> f]
    /\ ver' = [ver EXCEPT ![v].at = "finding"]
    /\ UNCHANGED <<published, absent>>

\* The key is in the document, or the thread comes back, once.
_find_key(v) ==
    /\ ver[v].at = "finding"
    /\ ver' = [ver EXCEPT ![v].at = IF ver[v].token.kid \in ver[v].keys THEN "decoding"
                                    ELSE IF ver[v].looks = 1 THEN "looking" ELSE "no key"]
    /\ UNCHANGED <<published, entry, absent>>

\* Signature and claims.
verify_id_token(v) ==
    /\ ver[v].at = "decoding"
    /\ IF ver[v].token.signed /\ verify_claims(ver[v].token)
       THEN ver' = [ver EXCEPT ![v].at = "identity", ![v].id = identity_from_claims(ver[v].token)]
       ELSE Refuse(v, "bad token")
    /\ UNCHANGED <<published, entry, absent>>

Outcomes == {"identity", "bad token", "bad header", "no key", "keys unavailable"}
Finish(v) ==
    /\ ver[v].at \in Outcomes
    /\ ver' = [ver EXCEPT ![v] = Resting]
    /\ absent' = absent \ {v}
    /\ UNCHANGED <<published, entry>>

KeysNext ==
    \/ \E keys \in SUBSET Kids : ProviderRotates(keys)
    \/ DocumentExpires
    \/ \E v \in Verifiers :
          \/ \E t \in Tokens : validate_jose_header(v, t)
          \/ fetch_jwks(v) \/ guarded_get_json(v) \/ StoreDocument(v) \/ _find_key(v)
          \/ verify_id_token(v) \/ Finish(v)

KeysSpec == KeysInit /\ [][KeysNext]_idVars

----------------------------------------------------------------------------
(* Properties.                                                              *)

\* "A kid miss triggers exactly one refetch, then fails closed": a token is
\* refused for its key only when the provider did not publish that key at
\* some time since the verification began.  An old document in the cache, or
\* one another thread stores meanwhile, refuses nobody.
RefusedKeyWasGone ==
    \A v \in Verifiers : ver[v].at = "no key" => v \in absent
=============================================================================
