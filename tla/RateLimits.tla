----------------------------- MODULE RateLimits -----------------------------
(***************************************************************************)
(* The Redis counters that limit e-mail, sign-in, OAuth, Stripe and        *)
(* Patreon requests, and the pool of threads in which passwords are        *)
(* hashed.  A limiter increments a counter, then makes sure the counter    *)
(* has an expiry, in two commands between which the connection may break.  *)
(* The sign-in limiter reads its counters before the password is verified  *)
(* and increments them afterwards, when the verification failed.           *)
(***************************************************************************)
EXTENDS Naturals, Sequences, FiniteSets

CONSTANTS
    Jobs,       \* the requests that need the pool of a process
    Calls,      \* the requests of the other limiters
    Slots,      \* AUTH_PASSWORD_WORK_CONCURRENCY
    Limit,      \* the limit of each bucket
    MaxFaults,  \* bound on broken connections and dead processes
    Spare       \* bound on each counter: this much above its limit

ASSUME LimitAssumption ==
    /\ Slots \in Nat \ {0} /\ \A b \in DOMAIN Limit : Limit[b] \in Nat \ {0}
    /\ {"identifier", "account", "global", "ip", "user", "session", "failure", "recipient", "lookup"} \subseteq DOMAIN Limit
ASSUME ActorAssumption == IsFiniteSet(Jobs \cup Calls) /\ Jobs \cap Calls = {}

Buckets == DOMAIN Limit
\* The counters of failed sign-ins, of the address with the name and of the name.
LoginBuckets == <<"identifier", "account">>
Routes == {"send", "consume", "change_password", "oauth", "stripe", "patreon"}

VARIABLES
    count,   \* the counters
    expires, \* the counters with an expiry
    actor,   \* the requests
    pool,    \* the jobs of PasswordWorkPool._jobs
    waiting, \* the jobs whose client still waits for the answer
    closed,  \* PasswordWorkPool._closed
    route,   \* the limiter each of the other requests goes through
    faults   \* faults so far

limitVars == <<count, expires, actor, pool, waiting, closed, route, faults>>
Actors == Jobs \cup Calls
Resting == [at |-> "idle", todo |-> << >>, mode |-> "stop", seen |-> 0, over |-> FALSE]

LimitsInit ==
    /\ count = [b \in Buckets |-> 0] /\ expires = {}
    /\ actor = [a \in Actors |-> Resting] /\ pool = {} /\ waiting = {}
    /\ closed = FALSE /\ route \in [Calls -> Routes] /\ faults = 0

Moves(a, s) == actor' = [actor EXCEPT ![a] = s]
At(a, l) == actor[a].at = l
Ends(a) == Moves(a, Resting)

-----------------------------------------------------------------------------
(* A counter *)

Ask(a, buckets, mode) == Moves(a, [Resting EXCEPT !.at = "incr", !.todo = buckets, !.mode = mode])

Incr(a) ==
    LET b == Head(actor[a].todo) IN
    /\ At(a, "incr") /\ count[b] < Limit[b] + Spare[b]
    /\ count' = [count EXCEPT ![b] = @ + 1]
    /\ Moves(a, [actor[a] EXCEPT !.at = "ttl", !.seen = count'[b]])
    /\ UNCHANGED <<expires, pool, waiting, closed, route, faults>>

\* EXPIRE of a counter that has meanwhile expired does nothing.
\* Mutation: only the first increment sets the expiry.
ExpiryAtFirst(b, seen) == IF seen = 1 /\ count[b] > 0 THEN expires \cup {b} ELSE expires
Expiry(b, seen) == IF (seen = 1 \/ b \notin expires) /\ count[b] > 0 THEN expires \cup {b} ELSE expires

\* "stop" ends at the first bucket that is full, "all" counts in every bucket and
\* refuses afterwards, "record" never refuses.
_consume_bucket(a) ==
    LET s == actor[a]  b == Head(s.todo)  full == s.seen > Limit[b] IN
    /\ At(a, "ttl") /\ expires' = Expiry(b, s.seen)
    /\ \/ s.mode = "stop" /\ full /\ Ends(a)
       \/ ~(s.mode = "stop" /\ full) /\ Len(s.todo) > 1
          /\ Moves(a, [s EXCEPT !.at = "incr", !.todo = Tail(@), !.over = @ \/ full])
       \/ ~(s.mode = "stop" /\ full) /\ Len(s.todo) = 1
          /\ IF a \in Jobs THEN Moves(a, [s EXCEPT !.at = "return"]) ELSE Ends(a)
    /\ UNCHANGED <<count, pool, waiting, closed, route, faults>>

\* Redis removes the counter when its time has come.
WindowEnds(b) ==
    /\ b \in expires /\ expires' = expires \ {b} /\ count' = [count EXCEPT ![b] = 0]
    /\ UNCHANGED <<actor, pool, waiting, closed, route, faults>>

\* _redis_unavailable: the limiters are configured to refuse.
RedisFails(a) ==
    /\ actor[a].at \in {"incr", "ttl", "check", "admit"} /\ faults < MaxFaults /\ faults' = faults + 1
    /\ IF a \in Jobs THEN Moves(a, [actor[a] EXCEPT !.at = "return"]) ELSE Ends(a)
    /\ UNCHANGED <<count, expires, pool, waiting, closed, route>>

-----------------------------------------------------------------------------
(* The limiters of the routes *)

Begins(a, r) ==
    /\ a \in Calls /\ route[a] = r /\ At(a, "idle")
    /\ UNCHANGED <<count, expires, pool, waiting, closed, route, faults>>

check_send_request(a) == Begins(a, "send") /\ Ask(a, <<"recipient", "user", "ip">>, "stop")
check_consume_request(a) == Begins(a, "consume") /\ Ask(a, <<"lookup", "ip">>, "stop")
\* With a session identifier in the token, and without one.
check_change_password_attempt(a) ==
    Begins(a, "change_password") /\ (Ask(a, <<"user", "ip", "session">>, "stop") \/ Ask(a, <<"user", "ip">>, "stop"))
record_change_password_failure(a) == Begins(a, "change_password") /\ Ask(a, <<"failure">>, "stop")
OAuthRateLimiter(a) == Begins(a, "oauth") /\ Ask(a, <<"ip">>, "stop")
StripeRateLimiter(a) == Begins(a, "stripe") /\ Ask(a, <<"user">>, "stop")
_check_dimensions(a) == Begins(a, "patreon") /\ Ask(a, <<"user", "ip">>, "all")

Asks(a) ==
    \/ check_send_request(a) \/ check_consume_request(a) \/ check_change_password_attempt(a)
    \/ record_change_password_failure(a) \/ OAuthRateLimiter(a) \/ StripeRateLimiter(a) \/ _check_dimensions(a)

-----------------------------------------------------------------------------
(* Password work: no queue, a full pool refuses *)

run(a) ==
    /\ At(a, "idle") /\ ~closed /\ Cardinality(pool) < Slots
    /\ pool' = pool \cup {a} /\ waiting' = waiting \cup {a}
    /\ Moves(a, [Resting EXCEPT !.at = "admit"])
    /\ UNCHANGED <<count, expires, closed, route, faults>>

\* The client goes away: the shielded thread works on, and keeps its place.
\* Mutation: the place of an abandoned request is given to the next.
CancelFrees(a) ==
    /\ a \in waiting /\ waiting' = waiting \ {a} /\ pool' = pool \ {a}
    /\ UNCHANGED <<count, expires, actor, closed, route, faults>>
Cancel(a) ==
    /\ a \in waiting /\ waiting' = waiting \ {a}
    /\ UNCHANGED <<count, expires, actor, pool, closed, route, faults>>

\* One Lua script: every limit first, then every counter; a full counter without an
\* expiry gets one.
check_allowed(a) ==
    /\ At(a, "admit")
    /\ LET full == count["global"] >= Limit["global"] IN
       /\ expires' = expires \cup {"global"}
       /\ count' = IF full THEN count ELSE [count EXCEPT !["global"] = @ + 1]
       /\ Moves(a, [actor[a] EXCEPT !.at = IF full THEN "return" ELSE "check"])
    /\ UNCHANGED <<pool, waiting, closed, route, faults>>

check_login_identifier_allowed(a) ==
    /\ At(a, "check")
    /\ Moves(a, [actor[a] EXCEPT !.at = IF \E i \in 1 .. 2 : count[LoginBuckets[i]] >= Limit[LoginBuckets[i]]
                                        THEN "return" ELSE "verify"])
    /\ UNCHANGED <<count, expires, pool, waiting, closed, route, faults>>

\* The password is right, or the failure is recorded.
_login_password_job(a) ==
    /\ At(a, "verify")
    /\ \/ Moves(a, [actor[a] EXCEPT !.at = "return"])
       \/ Ask(a, LoginBuckets, "record")
    /\ UNCHANGED <<count, expires, pool, waiting, closed, route, faults>>

_finished(a) ==
    /\ At(a, "return") /\ pool' = pool \ {a} /\ waiting' = waiting \ {a} /\ Ends(a)
    /\ UNCHANGED <<count, expires, closed, route, faults>>

aclose == ~closed /\ closed' = TRUE /\ UNCHANGED <<count, expires, actor, pool, waiting, route, faults>>
Restarts == closed /\ pool = {} /\ closed' = FALSE /\ UNCHANGED <<count, expires, actor, pool, waiting, route, faults>>
ProcessDies ==
    /\ faults < MaxFaults /\ faults' = faults + 1 /\ pool' = {} /\ waiting' = {} /\ closed' = FALSE
    /\ actor' = [a \in Actors |-> IF a \in Jobs THEN Resting ELSE actor[a]]
    /\ UNCHANGED <<count, expires, route>>

Works(a) ==
    \/ check_allowed(a) \/ check_login_identifier_allowed(a) \/ _login_password_job(a) \/ _finished(a)
Counts(a) == Incr(a) \/ _consume_bucket(a)

PoolNext ==
    \/ aclose \/ Restarts \/ ProcessDies
    \/ \E a \in Jobs : run(a) \/ Works(a) \/ Cancel(a)
CountersNext ==
    \/ \E a \in Actors : Counts(a) \/ RedisFails(a)
    \/ \E b \in Buckets : WindowEnds(b)
LimitsNext == PoolNext \/ CountersNext \/ \E a \in Calls : Asks(a)
LimitsSpec == LimitsInit /\ [][LimitsNext]_limitVars

-----------------------------------------------------------------------------
(* Sign-ins read the counter of failures long before they add to it, so    *)
(* more than the limit can fail in a window; but only as many more as the  *)
(* pool verifies at a time (_login_password_job in PasswordWorkPool.run).  *)
OvershootBounded ==
    \A i \in 1 .. 2 : count[LoginBuckets[i]] <= Limit[LoginBuckets[i]] + Slots - 1

(* Nobody is shut out for good: a counter without an expiry counts only   *)
(* requests that are between their two commands or were cut off there, so  *)
(* that the next request to complete repairs it, whatever happened to the  *)
(* connections before (_consume_bucket).                                   *)
CountersExpire ==
    \A b \in Buckets \ expires :
        count[b] <= faults * Slots + Cardinality({a \in Actors : At(a, "ttl") /\ Head(actor[a].todo) = b})
=============================================================================
