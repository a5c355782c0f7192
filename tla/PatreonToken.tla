---------------------------- MODULE PatreonToken ----------------------------
(***************************************************************************)
(* The creator token.  Patreon replaces the refresh token at every refresh *)
(* and the worker keeps the latest one, encrypted, in the single row of    *)
(* patreon_provider_token_state.  Tokens are numbered in the order Patreon *)
(* issued them; number 0 is the one in the environment.                    *)
(***************************************************************************)
EXTENDS Naturals

CONSTANTS Processes, MaxGrants, NoToken

ASSUME TokenAssumption == MaxGrants \in Nat /\ NoToken \notin Nat

VARIABLES
    grant,   \* the token Patreon accepts
    stored,  \* the row: token, status, whether its expiry is near
    held,    \* process -> the token its client holds
    step     \* process -> "down", "up", or "granted": not stored yet

tokenVars == <<grant, stored, held, step>>

\* sp_patreon_provider_token_state_upsert; a failure carries no token and
\* the row keeps the last one.
\* Mutation: the row takes what the write carries.
UpsertAsGiven(tok, status) ==
    stored' = [tok |-> tok, status |-> status, near |-> FALSE]
upsert_patreon_provider_token_state(tok, status) ==
    stored' = IF tok = NoToken THEN [stored EXCEPT !.status = status]
              ELSE [tok |-> tok, status |-> status, near |-> FALSE]

\* A process starts: the stored token if its status is active, else the
\* environment's.
load_persisted_creator_tokens ==
    IF stored.status = "active" /\ stored.tok # NoToken THEN stored.tok ELSE 0
from_config(p) ==
    /\ step[p] = "down"
    /\ step' = [step EXCEPT ![p] = "up"]
    /\ held' = [held EXCEPT ![p] = load_persisted_creator_tokens]
    /\ UNCHANGED <<grant, stored>>

_creator_token_refresh_due == stored.status # "active" \/ stored.near

\* Patreon accepts the refresh token and issues the next; the answer may be
\* lost on the way.
refresh_creator_token(p) ==
    /\ step[p] = "up" /\ _creator_token_refresh_due
    /\ held[p] = grant /\ grant < MaxGrants
    /\ grant' = grant + 1
    /\ \/ held' = [held EXCEPT ![p] = grant + 1] /\ step' = [step EXCEPT ![p] = "granted"]
       \/ UNCHANGED <<held, step>>
    /\ UNCHANGED stored

\* Refused (an older token) or not available at the moment.
_record_refresh_failure(p) ==
    /\ step[p] = "up" /\ _creator_token_refresh_due
    /\ upsert_patreon_provider_token_state(NoToken, IF held[p] # grant THEN "revoked" ELSE "refresh_failed")
    /\ UNCHANGED <<grant, held, step>>

\* A read of the worker is answered 401: the access token is not valid.
_record_creator_token_degraded(p) ==
    /\ step[p] = "up" /\ held[p] # grant
    /\ upsert_patreon_provider_token_state(NoToken, "revoked")
    /\ UNCHANGED <<grant, held, step>>

\* The write of the new token may fail; the process goes on with it.
_persist_token_state(p) ==
    /\ step[p] = "granted"
    /\ step' = [step EXCEPT ![p] = "up"]
    /\ \/ upsert_patreon_provider_token_state(held[p], "active")
       \/ UNCHANGED stored
    /\ UNCHANGED <<grant, held>>

ExpiryNears ==
    /\ stored.status = "active" /\ ~stored.near
    /\ stored' = [stored EXCEPT !.near = TRUE]
    /\ UNCHANGED <<grant, held, step>>

ProcessEnds(p) ==
    /\ step[p] # "down"
    /\ step' = [step EXCEPT ![p] = "down"]
    /\ held' = [held EXCEPT ![p] = NoToken]
    /\ UNCHANGED <<grant, stored>>

TokenInit ==
    /\ grant = 0
    /\ stored = [tok |-> NoToken, status |-> "none", near |-> FALSE]
    /\ held = [p \in Processes |-> NoToken]
    /\ step = [p \in Processes |-> "down"]

TokenNext ==
    \/ ExpiryNears
    \/ \E p \in Processes :
          \/ from_config(p) \/ refresh_creator_token(p) \/ _persist_token_state(p)
          \/ _record_refresh_failure(p) \/ _record_creator_token_degraded(p) \/ ProcessEnds(p)

TokenSpec == TokenInit /\ [][TokenNext]_tokenVars

----------------------------------------------------------------------------
(* Properties.                                                              *)

\* The stored token is never lost and never replaced by an older one, though
\* several processes refresh and record failures in the same row.
StoredTokenKept ==
    [][stored.tok # NoToken => stored'.tok # NoToken /\ stored'.tok >= stored.tok]_stored

=============================================================================
