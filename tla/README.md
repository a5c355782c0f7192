# Verification of api.auth

api.auth is a FastAPI service that signs users in, hands out token pairs, and
keeps the users, groups, projects, roles, permissions, API keys, e-mail, billing
and Patreon facts that decide what a token is good for. Several replicas and
several background workers run the same code against one MySQL database and one
Redis. This directory holds TLA+ models of the parts whose correctness depends on
how those processes interleave, the TLC runs that check them on small instances,
and TLAPS proofs of their main invariants for instances of every size.

Paths are relative to the repository's Python package (`src/Util` stands for
`src/src/Util` of the tree in `PROJECT.json`, `schemas` for `src/schemas`).

## 1. Inventory

| Component | State | Operations | Meets the others through | What is hard | What makes it correct |
|---|---|---|---|---|---|
| Token lifecycle (`Util/auth_lifecycle.py`, `routes/auth.py`) | Redis: `session:`, `refresh_family:`, `refresh_token:`, `refresh_anchor:`, `revoked_family:`, the indexes `user_sessions:`, `user_refresh_families:` | sign-in, validate, refresh, switch project, logout, password change and reset, sweeps | called by every route; reads users and access from MySQL | one handler is many Redis commands; only rotation is guarded (WATCH); copies read before a query are written after it; crashes; expiry | a refresh token is exchanged once; revoked is final; a duplicate does not destroy the family; a sweep ends every family it should |
| Derived cache (`Util/cache_manager.py`) | permission, user and API-key entries | fill, invalidate by pattern | filled by validation, cleared by admin routes | a fill that read before the change is stored after the invalidation | no stale grant beyond the TTL |
| Password work and rate limits (`Util/password_work.py`, `*/rate_limit.py`) | pool slots, waiting requests, windows in Redis | admit, run, abandon, count | in front of sign-in, reset, e-mail, OAuth, Stripe and Patreon routes | a job outlives its request; INCR and EXPIRE are two commands; the counters of failures are read before the work and raised after it | the limit holds up to the pool's size; nobody is shut out for good |
| E-mail outbox (`workers/email_worker.py`, `14_email_activation.sql`) | `email_messages`, provider events, suppressions, dedupe markers | enqueue, claim, send, finalize, apply event, purge, erase | routes enqueue; the provider calls back | leases run out under a working worker; finalize checks neither owner nor status; webhooks overtake it | retries are bounded; sent is true; settled stays settled |
| E-mail addresses, links, idempotency (same SQL, `Util/email/idempotency.py`, `route_support.py`) | user addresses, activation and reset links, idempotency rows | add, activate, remove, set primary; issue, supersede, consume; begin, complete | sign-up and reset routes | a link validated before a slow hash and used after it; a repeat while the first request is half done | a stale link does nothing; one message per key |
| E-mail templates (`routes/email_templates.py`, `Util/email/templates.py`) | catalog rows, stored versions | save, roll back, disable, test send, resolve | read by the worker | editors write between an editor's read and write | mail follows the last write |
| API keys (`routes/api_keys.py`, `13_api_keys.sql`) | key rows, validation cache | create, list, update, revoke, expire, validate | middleware; group writes | a validation under way stores its result after the invalidation | a revoked key dies; revoked is for good; listings are true |
| OAuth sign-in and linking (`Util/oauth/*`, `routes/auth_oauth.py`) | init tokens, states, completions in Redis; external identities; signing keys | start, callback, complete, link, unlink, verify ID tokens | ends in a sign-in | two callbacks with one state; a session that ends during the round trip; key rotation | one outcome per state; links only in live sessions; nobody locked out |
| OAuth connections (`routes/admin_oauth.py`, `19_oauth_connections.sql`) | connections, credentials, bindings, their URLs, 30 s caches | administer, look up | read by sign-in | a row cached under several keys | a process sees its own changes |
| Stripe billing (`routes/stripe_webhooks.py`, `workers/billing_sync_worker.py`, `routes/admin_billing.py`, `17_*.sql`, `18_*.sql`) | webhook ledger, facts, sync jobs, groups, catalog, prices at Stripe, checkout intents | receive, classify, sync; provision, reconcile; check out | session plans | repeated and reordered events on several replicas; half-done provisioning; repeated checkouts | nothing lost, applied once; offered is charged; equal answers |
| Patreon entitlements (`routes/*patreon*.py`, `workers/patreon_sync_worker.py`, `16_*.sql`) | proofs, links, memberships, entitlements, deliveries, jobs, creator token | confirm, unlink, webhook, resync, sweep, refresh token | session plans | confirmations overlap; readings outlive the link; the token's row is shared | one holder; paid needs a link; requests are served |
| Groups, projects and access (`routes/admin_*_groups.py`, `routes/projects.py`, `Util/admin_group_scope.py`) | user groups, project groups, projects, their edges | create, bind, link, contain, remove, list | sessions are swept after the commit | candidates read before the write; scope read before the write; names that carry authority | sessions follow access; nobody sees or grants out of scope; authority comes from root |
| Roles and permissions (`routes/global_roles.py`, `routes/permission_assignments.py`, `05_*.sql`, `06_*.sql`) | roles, permission groups, permissions, links | assign, unassign, soft-delete, resolve | user groups give permissions | deletion leaves links behind; three procedures resolve the same question | the reads follow the rows |
| Users, bulk operations (`routes/users.py`, `Util/bulk_operations.py`) | user rows, administrator assignments | create, change, deactivate, delete, in batches | sweeps | guard and write are two connections | one outcome per item, in scope |
| Audit, assistant, docs site, metrics, data models | append-only or none | - | - | - | - |

`PROJECT.json` lists the components with their files, and under `hazards` what is
hard to test, each at its line with the properties that would catch it.

## 2. Modules

Each module is named after a component, its actions after the functions or
procedures they model. A stored procedure is one transaction and one action; a
handler that awaits between calls has one action per call, so everything else may
run in between.

| Module | What it models | Proofs |
|---|---|---|
| `RefreshFamily` | abstract: a refresh-token family is issued once, exchanged one token at a time, ended for good | |
| `AuthLifecycle` | the handlers of the token lifecycle, one Redis command, transaction or query per step; refines `RefreshFamily` | `AuthLifecycle_proofs` |
| `EmailOutbox` | the outbox table, its workers, the provider and its webhooks | `Email_proofs` |
| `EmailLinks` | addresses, links, idempotency rows, and the requests that use them | `Email_proofs` |
| `EmailTemplates` | the template catalog, its versions, editors, mail being rendered | `Email_proofs` |
| `RateLimits` | the counters of the limiters, the admission script, the pool of password work | `Email_proofs` |
| `AccessGraph` | users, groups, projects and their edges; every route that reads or writes them; session sweeps after a commit | `Access_proofs` |
| `Permissions` | (extends `AccessGraph`) roles, permission groups, permissions, their links and every read of effective permissions | `Access_proofs` |
| `ApiKeys` | key rows, the shared validation cache, requests between lookup and store | `ApiKeys_proofs` |
| `BillingSync` | Stripe webhooks on several replicas, the ledger, facts, sync jobs and workers | `Billing_proofs` |
| `BillingCatalog` | billing groups, capabilities, catalog rows, prices at Stripe, reconciliation | `BillingGroups_proofs` |
| `BillingCheckout` | (extends `BillingCatalog`) checkout intents, in-memory answers, portal sessions | `BillingGroups_proofs` |
| `PatreonLinks` | proofs, confirmation, links, memberships, entitlements | `Patreon_proofs` |
| `PatreonSync` | (extends `PatreonLinks`) webhooks, resync jobs, the worker and its sweeps | `Patreon_proofs` |
| `PatreonToken` | the creator token and its single row | `Patreon_proofs` |
| `OAuthConnections` | provider catalog, connections, bindings, URLs, per-process caches | `OAuth_proofs` |
| `OAuthFlow` | (extends `OAuthConnections`) init tokens, states, callbacks, completion, linking, unlinking | `OAuth_proofs` |
| `OAuthIdTokens` | ID-token checks and the shared copy of the signing keys | `OAuth_proofs` |
| `MC*` | the instances for TLC | |

### Token lifecycle

A **pair** `<<f, n>>` stands for the access jti and the refresh jti minted together
as the n-th pair of family f: the code always stores, replaces and compares the two
together. A **scope** is the project of a project session or `Platform`. `session`,
`family`, `token`, `anchor`, `tomb`, `usess`, `ufam` are the seven kinds of Redis
keys (`Util/auth_constants.py:28-42`), reduced to the fields that are compared;
`active` and `access` are what MySQL answers; `claim` and `held` are what the JWTs
say and who has them; `aged` the used tokens whose replay grace is over; `pc` and
the variables after it are the program counters and locals of the handlers; `dirty`
the handlers whose WATCHed keys were written. `next`, `rotated`, `ended`, `swept`,
`cover` and `req.late` are history.

`Issue*` are the six writes of `_issue_token_pair`; `Access*`, `IsRevoked`,
`LoadActiveUser`, `ReconstructContext` are `validate_access_session`; `Refresh*`,
`Rotated`, `Classify*` are `rotate_refresh_family` and
`classify_refresh_token_state`; `Revoke*` are `revoke_refresh_family`, called by
the others with a return label; `All*` and `Scan*` are `revoke_user_auth_state` and
what a deactivation runs after it; `Except*` are
`revoke_user_auth_state_except_current`; `Project*` are
`revoke_project_sessions_losing_access`. `Step(p)` is the disjunction of these
groups. `SessionExpires`, `FamilyExpires`, `TokenExpires` and `GraceEnds` are the
passing of time, `Crash` the death of a handler or the loss of its answer. Reads
that follow one another and can only turn the answer into a denial are one step.

`Promise` maps a family to `unborn`, `live` or `ended`, its current generation to
the number of pairs minted, and its spent tokens to the exchanges recorded. Each
Redis command is an `Issue`, an `Exchange`, an `End` of `RefreshFamily`, or a stutter.

### E-mail

`EmailOutbox`: the variables up to `scrubbed` are columns of `email_messages`;
`suppressed` and `identity` are suppressions and the status of addresses; `ledger`
and `marker` the applied provider events and their Redis markers; `wpc`, `snap`,
`todo`, `cur`, `out` the loop of `drain_once`; `hpc`, `hev` webhook requests;
`accepted` and `acked` the provider, which is external. `sp_claim_email_messages`
commits before it reads its batch, so it is `Claim` and `Fetch`. `process_message`
is `Take`, one action for each way out of its try block, and `Finalize` or
`FinalizeFails`. `Slow` says whether a batch may outlive its lease: the code has no
bound that decides it, since lease and batch size are configured independently and
mail is sent one at a time.

`EmailLinks`: a request is `Arrives` (its key is begun), the call of its procedure,
for a reset the validation, the hash and the consumption, and the completion of the
key. `mailed` counts what left under a key.

`EmailTemplates`: an editor reads the template, validates its draft and calls one
procedure; mail carries only its code until the worker renders it. `written` is
what the last write of a code said.

`RateLimits`: each limiter increments a bucket (`Incr`) and then sees to its expiry
(`_consume_bucket`), two commands between which the connection may break
(`RedisFails`) or the process die. A password job is `run`, the admission script
`check_allowed`, `check_login_identifier_allowed`, `_login_password_job`, and
`_finished`; `Cancel` abandons the request and leaves the job its place.

### Access, permissions, API keys

`AccessGraph` follows `user - user group - project group - project`. Group routes
hold the graph lock for their whole transaction and are one step; user and project
routes read their guard first and are a request in `reqs` until they write. What a
route registers with `after_commit` is a member of `sweeps` until it runs, and a
request that deactivates, deletes or retypes a user turns into the operation
`sign_out` with its commit: in between, other requests run, the process may die and
Redis may fail (`SweepIsLost`, `SignOutFails`), and nothing repeats the call. `stray`
are the sessions left that way, those whose access went at a place that does not
sweep, and those whose user was deactivated between the check and the write of the
sign-in. The responses name, beside users, projects and groups, the groups and
projects a listing tells of each user (`member`, `reach`, `through`). The write of an
activation goes by the user's id alone: an account deactivated and given another
type since the guard comes back with the new type, which `Reactivates` excepts from
`GrantsInScope` and `AuthorityIsRoots`. (The proof found it; it takes three requests
under way, one more than the run has.) `Permissions` adds the three ways to hold a
permission, with the same split between guard and write, and the reads of
assignments and catalogs, which have no scope; its tables of roles, permission
groups and permissions have separate ids. `GraphSpec` is the graph alone,
`PermSpec` both together.
`ApiKeys` keeps a validation between lookup and store in `checks`, an update between
SELECT and UPDATE in `edits`, an invalidation that follows a commit in `drops`.
The deletion of a project, the removal of an admin and a deactivation end access
with no invalidation (`Unannounced`). `strays` are keys whose entry, stored or on its
way, was passed over by the invalidations; `races` keys that two updates in flight
were both to reactivate.

### Billing, Patreon, OAuth

`BillingSync` follows one user: a delivery is four calls (scope, ledger, fact,
resync), a job is claimed, read, fetched, written and completed. Objects our Checkout
made (`Marked`) name their user and project; what is known of the others comes from a
row or the customer (`ScopeOf`), and may be nothing. `dropped` records the events that
were given up and why: `crash`, `nobody`, `unread` (the job has nothing to read). `BillingCatalog`
gives a handler that talks to Stripe one step per call; the ids of rows and prices are
never given out twice. `CatalogSpec(g)` is the catalog of group g, which has a Stripe
account of its own; `BillingSpec` is catalog and checkout together. `BillingCheckout`
repeats one idempotency key on several replicas. `PatreonLinks` takes a confirmation call
by call; `PatreonSync` adds deliveries, jobs and sweeps that read a campaign first
and store its members one by one. `late` (users written from a link that had
ended), `overran` (a lease ended under a worker still at work) and `owed` (keys of
requests no job has taken up yet) are history. A key is also struck from `owed` when
its job fails for good, or when a further request falls between the look of the
completion at `rerun_requested` and its write, which the procedure drops
(`16_patreon_entitlements.sql:1067`).
`PatreonToken` numbers the tokens Patreon issues. `OAuthFlow` follows a round trip
from the state record to the callback, which two processes may handle;
`OAuthConnections` has the rows and each process's cache of them; `OAuthIdTokens`
the threads that verify tokens with one cached document of keys.

## 3. Runs

| Run (cfg) | Checks | Shows |
|---|---|---|
| `auth_races` (AuthRaces) | `ReuseNeedsStaleToken`, `NoLateAccept`, `SweptIsEnded`, `RevokedKeepNoSession`, `Promise` | five scenes on the same families: duplicates of a refresh with crashes and the end of the grace; revocation against validation; resets no sign-in overlaps; project switches while access changes and keys expire; a password change that sweeps while others sign in, refresh and expire, and leaves no session of a revoked family |
| `index_race` (AuthIndexRace), violation | `SweptIsEnded` | see Findings |
| `email` (Email) | `EventKept`, `SettledIsFinal`, `StaleLinkDoesNothing`, `OneMessagePerKey`, `OvershootBounded`, `CountersExpire`, `MailFollowsLastWrite` | seven scenes: workers within their leases and a webhook; reset links while the account changes; two users and one address; repeats under one key; sign-ins and calls at their limits; editors while mail is rendered |
| `email_slow` (EmailSlow) | `BudgetLeft`, `SentWasAccepted`, `MessagesSettle` | every fault of the outbox with workers that outlive their leases |
| `access_scope` (AccessScope) | `SessionsFollowAccess`, `SeenInScope`, `ReadsFollowRows`, `GrantsInScope`, `AuthorityIsRoots` | administrators change groups, projects, users, roles and permissions, one step and one callback at a time; sweeps and sign-outs may be lost |
| `api_keys` (ApiKeyCache) | `CacheFollowsRows`, `ListingsAreTrue`, `RevokedKeyDies` | validation, update and revocation of keys race while access changes, admins are removed and projects deleted |
| `api_key_revival` (ApiKeyRevival), violation | `RevocationIsPermanent` | see Findings |
| `billing_sync` (BillingSync) | `NothingLostQuietly`, `AppliedOnce`, `JobsSettle` | events late, twice and out of order on two replicas; two workers and their leases |
| `billing_groups` (BillingGroups) | `OfferedAmountCharged`, `OfferedPriceIsLive`, `AnswersAgree` | catalog rows are repriced, archived and reconciled while calls fail; checkouts are repeated |
| `patreon` (Patreon) | `OneHolder`, `PaidNeedsLink`, `RequestKept`, `EntitlementsConverge`, `StoredTokenKept` | confirmations overlap; webhooks, sweeps and jobs meet unlinking; two processes keep the token |
| `oauth` (OAuth) | `OwnChangesSeen`, `OneOutcome`, `CompletedInLiveSession`, `RefusedKeyWasGone` | administration under two caches; sign-ins and links against logout and unlinking; key rotation |
| `oauth_lockout` (OAuthLockout), violation | `NobodyLockedOut` | see Findings |

**Scenes.** A run that asks several questions of one subsystem has a variable
`scene` chosen by its initial predicate and never changed. A scene says which
handlers and events a behaviour has, so that the state space is the sum and not the
product of the questions; its steps are those of the component's own next-state
relation, restricted. `SlowNext` restricts `EmailOutbox` in the same way (no
activation of an address).

**Bounds.** Every bound is a constant, and every proved theorem holds for all of
its values.

- Handlers of the token lifecycle meet only through the keys of one family and the
  indexes of one user: one user, two families where a sweep has to find several,
  two or three handlers, each of which starts again when it returns. Two pairs are
  enough for a rotation between a read and a write; a third is there where the age
  of a token counts.
- Rows of the outbox meet only in a worker's batch: two messages make a batch with a
  rest; one is enough where workers and webhooks meet on one row. `MaxAttempts` 2
  or 3 lets the budget run out; one mishap per behaviour.
- Links: three requests and two changes of the account, so that a link is issued,
  superseded and used too late. Limits of 1, a pool of 2 and three jobs, so that
  the overshoot reaches its bound.
- The access graph: a root user, an administrator and a member, two projects, three
  user groups and three project groups, two writes and one request under way; the
  initial states are deployments before and after the groups exist, so two writes
  are enough for an edge that completes a chain another write prepared.
- API keys: two keys in two projects of which one is used in a behaviour, two
  validations and two updates in flight, one change of access or account. Two updates
  are what a revival takes; the revival itself is run without validations.
- Stripe: two subscriptions and two purchases, one of each made by our Checkout, two
  events, two jobs, two attempts, one fault per behaviour. Catalog: two rows, two amounts, three prices, four
  requests. Patreon: two users, two accounts, three memberships, two campaigns, one
  worker, two shocks. OAuth: one key with two connections and bindings, two
  processes, two states and callbacks, three administrative writes.

**Deadlock** is not checked: the instances really stop. Families, keys, events, requests and writes are bounded, and when they are used up
and every queue is empty nobody has anything left to do.

**Fairness.** Nothing is assumed of arrivals, expiries of sessions, crashes or
administrators.

- `EmailOutbox.Fairness`: `Work(w)`, because `run_forever` polls for ever and every
  call has a timeout, and `LeaseExpires(m)`, because time passes. Nothing is assumed
  of the provider, so `MessagesSettle` includes messages that end dead. Crashes are
  bounded by `MaxMishaps`; without a bound the property is false, since a crash
  uses up no attempt (`14_email_activation.sql:1054`).
- `ApiKeys.Fairness`: an entry of the cache expires, a validation past its lookup
  goes on.
- `BillingSync.Fairness`: the worker goes on with a job it holds, somebody claims a
  due job, a lease whose holder is gone lapses.
- `PatreonSync.SyncFairness`: the worker, a delivery and a confirmation under way go
  on, leases lapse.

## 4. Proofs

All proofs are checked by TLAPS for every value of the constants that meets the
`ASSUME`s of the module: sets of users, families, workers, keys and so on of any
size, any limits and any bounds. Each follows the same plan: an invariant `IInv`
that is inductive, one lemma per action, and a theorem that combines them.

**Token lifecycle** (`AuthLifecycle_proofs`). `TypeCorrect`, `ExchangedOnce`
(`[]RotatedOnce`), `RevocationIsFinal` (`[]EndedIsFinal`), `LateIsRefused`
(`[]NoLateAccept`) and `Refinement` (`Spec => Promise`). `IInv` adds `ControlAt`
(what the locals hold at each label), `OneWriter`, `Referred`, `RefersAt` (nothing
names a family before its sign-in has entered the first index, which makes the
unguarded writes of `_issue_token_pair` safe), `Watched` (a rotation whose keys were
not touched since its WATCH still sees an active family whose current token it
holds), `LastIsCurrent`, `Minted`, `Spent`, and `LateAt` (a late request gets no
further than its first look at the family).

`DuplicatesAreHarmless` (`[]ReuseNeedsStaleToken`): `AgeInv` says what the copies a
handler read still tell of the pairs minted since. A token that lost its place in its
family saw a rotation or the end of the family, and two different pairs beyond the
first make three. So a family with a replay grace is marked reused only when a
token was presented after its grace or after a third pair was minted.

`SweepsEndFamilies` (`[]SweptIsEnded`) has the hypothesis `NoSignInMeanwhile`: no
sign-in adds its family between the SMEMBERS of a full sweep and its DEL. That is
exactly the gap which `index_race` shows, and outside it the sweep is complete:
every family a client was handed is done with or in the index (`Listed`), and what a
sweep has still to do covers what it was called to end (`SweepInv`).

`RevocationsClear` (`[]RevocationClearsSessions`): of a family at most the last pair's
session lives (`LastLives`), it is in its user's index if a rotation stored it
(`Indexed`), and the record a revocation goes by names a pair (`Named`), so what the
revocation deletes and what it finds in the index is all there is (`ClearInv`). It
excludes three cases in which the code does leave a session behind until its own
TTL: the record of the family has expired, so that the revocation does not know
its jti (`Lasting`); a sign-in falls under the DEL of a full sweep
(`NoSignInMeanwhile`); a handler dies between its tombstone and its last DEL
(`Unbroken`), since later calls stop at the tombstone. The run states it as
`RevokedKeepNoSession`, for the scenes that have neither the expiry of families nor
crashes among their events.

**Outbox** (`Email_proofs`). `TypeCorrect`, `RetriesAreBounded`
(`BudgetLeft`), `PayloadIsTransient` (`PayloadCleared`), `SentIsTrue`
(`SentWasAccepted`), and `LeasesKeepWorkersApart` (`SettledIsFinal` and
`LeaseIsExclusive`). `IInv` adds `WorkerAt`, which rows a worker can have in its
hands, and `RowAt`: a row with a provider id was taken by the provider and has no
payload, which is what lets a webhook settle a row without clearing the payload.
The last theorem rests on the hypothesis `Timely`, that batches end within their
lease (`~Slow`) and nobody erases a row under way: without it the code does not
keep workers apart, since `sp_finalize_email_message` looks at neither owner nor
lease. The run `email` checks `SettledIsFinal` in such an instance. `EventsAreKept`
(`[]EventKept`) has the hypothesis `OneAtATime`: one webhook request at a time, and
neither a restart nor a failing Redis among the faults, which is the scene the run
has. `MarkersInv` says that an event with a dedupe marker was dealt with or is in
the hands of the request that set it, and that what was answered was dealt with.
With two requests the second is answered on the marker of the first (see Findings).

**Links and keys** (`Email_proofs`). `OneMessage` (`[]OneMessagePerKey`): `KInv`
says that a key belongs to one request at most, the one that found no row, that an
unused key has mailed nothing, and that its owner mails nothing before its call.
`StaleLinks` (`StaleLinkDoesNothing`): an action property, from the invariant `LInv`:
a live reset link is the last one its user was issued (`Latest`), and the address it
went to is there since before that (`Placed`). Issuing a link revokes the earlier
ones and removing an address revokes its links, so the invariant is kept by every
step; that the password is still the one of the day of issue is no part of it, the
consumption itself compares the two.

**Templates** (`Email_proofs`). `MailIsCurrent` (`MailFollowsLastWrite`):
`Follows(c)` relates the three tables to the last write: a built-in code has its
row, a code without a row was never disabled, and what `resolve_template` finds is
what was written last. At most one version of a code is in use, so the choice of
the highest is a choice of one.

**Limits** (`Email_proofs`). `Overshoot` (`[]OvershootBounded`): `Reserve(i)`
counts, with bucket i of the failure counters, the jobs past the check that have
still to raise it (`Owing`): together they stay within the limit plus the pool's
places less one. Each of them holds a place of the pool (`Placed`), and the check
admits one only while the counter is below its limit. `Repairs`
(`[]CountersExpire`): `Repairable(b)` charges every increment of a bucket without
expiry to a request between its two commands or to a fault that cut one off.

**API keys** (`ApiKeys_proofs`). `TypeCorrect`, `CacheIsCovered`
(`[]CacheFollowsRows`) and `Listings` (`[]ListingsAreTrue`), for any number of
validations, updates and changes. The first goes through `HeldFollows`: the property
must hold of a result on its way from its lookup as well as of a stored one. So an
entry that is no longer true passed a moment the code leaves open: the invalidation
ran while a validation was past its lookup, it was lost, or what ended the key has
none; and `strays` forgets a key as soon as nothing of it is stored or on its way.
The second goes through `RevivesLapsed`: an update that is to reactivate its key
finds it as it read it and is alone (`Lone`), since a key that is not active cannot be
revoked, or two such updates met at the key (`races`). `api_key_revival` shows what
happens to those.

**Signing keys** (`OAuth_proofs`). `OldKeysRefuseNobody`
(`[]RefusedKeyWasGone`): a thread whose key was published all along finds it in
every document it fetched itself, and trusts the shared document on its first look
only.

**OAuth configuration and round trips** (`OAuth_proofs`). `AdminSeesItself`
(`[]OwnChangesSeen`): the process that wrote last has in its cache what the tables
answer or nothing (`Seen`); that a write clears enough entries needs that a project
binds one row under a key (`OneRowOfKey`), which the procedures check in their
transaction. `TripsEndOnce` (`[]OneOutcome`): a state is in its record, in the hands
of one callback, or spent (`Trip`), because GETDEL hands the record out once.
`LinksInLiveSession` (`CompletedInLiveSession`) adds `Stands`: a transaction whose
WATCHed keys nobody wrote still has the completion, the live family and the marker it
read. All are theorems of `ConfigSpec` or `OAuthSpec`, the two modules together.

**Stripe** (`Billing_proofs`). `TypeCorrect`; `NothingIsLost`
(`[]NothingLostQuietly`): an event that an answer, the ledger or a memory records
took effect, is between the ledger and the end of its request (`OnItsWay`), or is
excused (`LossInv`): its handler died past the ledger, its object is not ours and no
row or customer tells whose it is, or it was not stored and its job failed to be
queued or has nothing to read. `FactsApplyOnce` (`[]AppliedOnce`): as long as the
ledger answered, who persists a fact is the only one to do so and has recorded it
before (`OnceInv`), so a repeat finds the row, on whatever replica it arrives.

**Catalog** (`BillingGroups_proofs`). Theorems of `CatalogSpec(g)` for any group:
`CatalogTypes` (`[]CatalogTypeOK`), `PlansCostAsListed` (`[]OfferedAmountCharged`) and
`PlansCanBeBought` (`[]OfferedPriceIsLive`). `CatalogInv(g)` says, besides the types,
that rows and requests are of the group (`OfGroup`); that two requests on one row are
recorded in `mixed`, that nothing is switched off under a reconciliation, and that a
price made and not yet stored is nobody else's (`RaceInv`); that the price of a
provisioned row is live and nobody is about to switch it off, since who may still
come to that finds the row on offer and the unique key refuses it the plan
(`LiveInv`); and that what is on its way to a row costs what the row says
(`AmountInv`).

**Checkout** (`BillingGroups_proofs`). Theorems of `BillingSpec`. `AnswersAreOwn`
(`[]OwnInv`): answers, memories of replicas and rows name only sessions made for the
body they answer. `RepeatsAgree` (`[]AnswersAgree`) has the hypothesis
`[][ProjectStays]_allVars`: intents are rows of the project's group, so a project that
moves to another group starts anew. `QuietInv` says that until the first trouble one
request at a time is past the look at the table, there is at most one row with the
key, and it holds the one answer there is, or is about to.

**Access graph** (`Access_proofs`). The inductive invariant is `GraphInv`: rows and
edges join things that exist (`RowsOK`, `EdgesOK`), and a request under way that was
not admitted as root's is one of the few an administrator may send (`RequestOK`).
`SessionsAreSwept` (`[]SessionsFollowAccess`) adds `SessionsOK`, the property itself
in terms of chains: a group route leaves a sweep for every chain it breaks
(`LossIsSwept`), a write that ends a user leaves a sign-out that names it
(`LeftToSignOut`), and what a lost sweep or sign-out did not reach is in `stray`.
`GrantsStayInScope` (`GrantsInScope`): a group route completes only
chains to projects its caller may administer (`GrowsInScope`), and a request
completes none unless it is root's or a reactivation. `ReadsStayInScope`
(`[]SeenInScope`, of `PermSpec`) goes through the answers of every read, those of
roles and permissions included: what a read shows from outside its caller's scope is
the groups and projects of a user in scope, or an active row between active things.

**Permissions** (`Access_proofs`). `AuthorityIsGiven` (`AuthorityIsRoots`): besides
the scope of `AccessGraph`, every step of the graph and of the permissions that moves
a reserved permission is judged: it is root's, or a group route that adds a user in
scope to, or removes one from, a group in scope that was given the permission, or a
request that activates or ends the user. `PermInv` says that what a request was admitted for was made (`AskMade`), and
that what the guard of a caller who is not root checked still holds as long as
nobody with more authority has written since (`AskSafe`, while `fresh`); a write is
`Quiet` when it changes no group that gives a reserved permission and no role with
such a group, and every fresh write of such a caller is. `ReadsAgree`
(`[]ReadsFollowRows`): the procedures that list, explain and check permissions, for
any rows.

**Patreon** (`Patreon_proofs`). `TokenIsKept` (`StoredTokenKept`): while the newest
token is not stored one process alone knows it, so nobody overtakes its write. The
other two are theorems of `SyncSpec`, links, webhooks and worker together.
`LinkHasOneHolder` (`[]OneHolder`): a proof that a confirmation carries or a link was
made by is `Spent`, so it cannot be consumed nor its id given out again (`UsedUp`),
and it is carried by one confirmation, or belongs to one link (`UsedOnce`); that the
holder is one rests on the second look of `sp_patreon_link_account`, not on the
conflict check before it. `PaidPlanNeedsLink` (`[]PaidNeedsLink`): whatever is about
to be stored, by a confirmation, a webhook (`HookOK`) or the worker (`WorkerOK`), is
of the user of the account row it was read with (`Owned`), and a row keeps its user
after the link ends; so a write finds the link still there, or `late` has the user.
`RequestsAreKept` (`[]RequestKept`): while no lease ran out under its worker, a key
that is owed a run has a job that stands for it (`StandsFor`): queued or waiting for
a retry, or running with nothing read yet, or running with the rerun asked for.
`QueueInv` keeps it with `WorkOK`, what each place of the worker's loop has in hand,
and `BatchesApart`: a batch is running, under lease, and in no other worker's.

**Only model-checked.** The liveness properties `MessagesSettle`, `RevokedKeyDies`, `JobsSettle` and `EntitlementsConverge`: they hold by fairness, and
neither `ENABLED` nor fairness can be reasoned about with the installed provers. Every
other property of a passing run is stated by a theorem. The runs show what the
hypotheses of the theorems leave out as far as the code permits it (`index_race`,
`email`, `email_slow`), and that the events they speak of do happen.

## 5. Findings

- `index_race`: `revoke_user_auth_state` ends with an unconditional DEL of
  `user_refresh_families:`. A sign-in that adds its family between the SMEMBERS and
  that DEL is delivered but is in no index, and a later password reset does not
  find it. `docs/USAGE/authentication-usage-cases.md:425` says a successful reset
  revokes all of the user's sessions and refresh families.
- `oauth_lockout`: `has_usable_fallback_auth` (`Util/oauth/pipeline.py:1000`) looks
  for a marker in the stored hash, but the account was created with the Argon2 hash
  of the marker. Unlinking the only credential is allowed and nobody can sign in to
  the account any more. `docs/USAGE/oauth/request-flow.md:186` says it is refused.

- `api_key_revival`: `sp_update_api_key` (`13_api_keys.sql:410`, `:431`) reads the
  row without a lock and writes `is_active = TRUE` from what it read. Two updates
  extend one lapsed key and both read it as lapsed; the first makes it active, it is
  revoked, and the second makes it active again. `13_api_keys.sql:393` says that
  revocation is permanent and that a revoked key is never updated or reactivated, and
  `docs/USAGE/api-keys/README.md:20` that revocation is permanent.

Observations that are modelled around or listed as hazards, with no run of their
own:

- What follows a commit may be lost with the process or by a failing Redis: the
  session sweep of a group change (`Util/db_transaction.py:92`), the sign-out of a
  user who was deactivated, deleted or retyped (`routes/users.py:1455`, `:1733`). The
  call cannot be repeated, since the user is no longer found. Validation reads the
  user and the access again, so the tokens are refused while their keys last.
- `admin_user_groups.py:422` looks at the name of a group and at the scope, not at
  the permissions the group was given: an admin of its projects hands a reserved
  permission on by adding a member, and takes it away by removing one.
  `docs/USAGE/permissions/architecture.md:74` says that only root can delegate or
  withdraw it; the check of the permission routes is about assignments.
- The listings of users and the details of one tell every group and project of a user
  in scope, in the caller's scope or not (`routes/users.py:707-739`, `:1290-1366`),
  and the reads of assignments are not scoped, as `docs/USAGE/permissions/README.md:45`
  says of them.
- A key's cached validation is not dropped when its project is deleted, its owner is
  removed from the project as an admin or is deactivated; and a validation under way
  stores its result after the invalidation of a revocation, while
  `docs/USAGE/api-keys/README.md:61` says that revocation takes effect at once. Either
  lasts for the 60 seconds of the entry.
- A Stripe event about an object without our metadata, a row or a customer belongs to
  nobody: it is entered in the ledger and answered 200, and nothing is stored or
  queued (`routes/stripe_webhooks.py:644`, `:688`;
  `docs/USAGE/stripe-billing/architecture.md:127` says so). A dispute carries no
  metadata, so one that overtakes its purchase is lost that way. The comment at
  `stripe_webhooks.py:779` says the resync worker can recover a subscription without
  customer row; the job it is queued as is about the user, finds no customer to read
  and completes (`Util/stripe/sync.py:191`).
- A read of the Patreon link that fails while a user's job scans the campaign counts
  as no link: the job takes the member for absent and downgrades a paying user until
  the next sweep (`workers/patreon_sync_worker.py:1050`, `:1290`).

- Two webhook requests at once: a repeat is answered 204 on the marker of a first
  delivery whose update then fails, and the event is lost (`email_webhooks.py:213`).
- The completion of a Patreon job reads `rerun_requested` and writes the status in
  two statements outside a transaction (`16_patreon_entitlements.sql:1067`): a
  request that falls in between is lost.
- `unlink` retires one live membership of the account (`LIMIT 1`), and readings
  that began before an unlink are stored after it (`late` in `PatreonLinks`).
- A plain sign-in shortens the TTL of the family index to 72 hours although it may
  name a remember-me family (`auth_lifecycle.py:727`); the TTLs of the indexes are
  not modelled.
- A reconciliation may store one price in two rows: a price found by its lookup key
  is adopted (`catalog_sync.py:219`, `:317`), and nothing in the table says that a
  price belongs to one row (`18_billing_groups.sql:627`). A change of price of one
  row then deactivates it for the other. The proof found it; it takes six requests
  of one process, more than the run has. `mixed` records such rows, and
  `OfferedPriceIsLive` and `OfferedAmountCharged` except them.

## 6. What is not modelled

Audit and activity logging (append-only, read by nobody else), the assistant (a
proxy), the documentation site, metrics, error mapping and data models (no
protocol). Within the modelled components: cryptography and the encoding of tokens;
the TTLs of the two session indexes; registration and the sign-in that ends an OAuth
round trip, which issue a pair as a password sign-in does (`authorize_oauth_session`,
which only checks the session of a link, is an action of `OAuthFlow`); the age of
billing facts (`stale_after`) and the two projections of them; `email_delivery_attempts` as a log, priorities
and retry delays; the heartbeat; profile fields; import and export of files; PKCE
and user-info requests; tier-map administration; Stripe amounts other than the
price of a row.

## 7. Plan

- The TTLs of the session indexes against the 30 days of a remember-me family.
- Import and export in the bulk operations.
- PKCE and the user-info request in the OAuth round trip.
