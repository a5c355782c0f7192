------------------------------- MODULE MCOAuth -------------------------------
(***************************************************************************)
(* One project with one connection key and two processes.  In the scene    *)
(* "admin" the configuration changes through both processes; in "login"    *)
(* two sign-ins with the same new identity meet; in "link" a user links    *)
(* and reauthenticates while the session ends or the identity is unlinked; *)
(* in "keys" two threads verify ID tokens while the provider rotates keys. *)
(***************************************************************************)
EXTENDS OAuthFlow, OAuthIdTokens, TLC

CONSTANTS k1, c1, c2, b1, b2, n1, n2, j1, l1, p1, p2, u1, u2, f1, root, admin

MCAdministers == root :> {} @@ admin :> {j1}
MCProjectOf == k1 :> j1

\* A token that passes for a connection of every type, and two that do not.
Good == [provider |-> "oidc", alg |-> "ES256", kid |-> "kid1", signed |-> TRUE, iss |-> "issuer",
         aud |-> {"client"}, azp |-> None, window |-> "open", nonce |-> "nonce", sub |-> "subject",
         tid |-> None, hd |-> None, agrees |-> TRUE]
Google == [Good EXCEPT !.provider = "google", !.alg = "RS256", !.kid = "kid2", !.hd = "domain"]
MCTokens ==
    {Good, Google, [Good EXCEPT !.alg = "HS256"], [Google EXCEPT !.kid = "kid1", !.hd = "elsewhere"],
     [Good EXCEPT !.provider = "microsoft", !.alg = "RS256", !.tid = "tenant", !.iss = "tenant"]}

CONSTANT MaxWrites  \* bound on administration in a behaviour

VARIABLES scene, writes
sceneVars == <<configVars, flowVars, idVars, scene, writes>>

OpenRow == [key |-> k1, conn |-> c1, enabled |-> TRUE, login |-> TRUE, link |-> TRUE,
            mode |-> "both", group |-> TRUE, join |-> TRUE]
Local == [st |-> "active", hash |-> hash_password("chosen"), access |-> TRUE]

SceneInit ==
    /\ catalog = [status |-> "enabled", login |-> TRUE, link |-> TRUE]
    /\ conns = (c1 :> [st |-> "active", cred |-> "active", ns |-> n1, owner |-> None] @@ c2 :> NoConnection)
    /\ binds = (b1 :> OpenRow @@ b2 :> NoRow)
    /\ allowed = (b1 :> [k \in Kinds |-> {l1}] @@ b2 :> [k \in Kinds |-> {}])
    /\ up = [projects |-> {j1}, group |-> TRUE]
    /\ cache = [p \in Processes |-> [x \in CacheKeys |-> NoEntry]] /\ writer = None
    /\ holder = [i \in Identities |-> None] /\ named = {}
    /\ marker = [f \in Families |-> 0] /\ marks = 0
    /\ inits = [t \in InitTokens |-> Unused] /\ states = [s \in States |-> Unused]
    /\ completions = {} /\ cb = [h \in Callbacks |-> Idle] /\ sweeping = {}
    /\ outcomes = [s \in States |-> 0] /\ writes = 0
    /\ scene \in {"admin", "login", "link", "keys"}
    /\ KeysInit /\ published = {"kid1"}
    /\ users = (u1 :> (IF scene = "link" THEN Local ELSE NoUser) @@ u2 :> NoUser)
    /\ family = [f \in Families |-> IF scene = "link" /\ f = f1
                    THEN [user |-> u1, live |-> TRUE, fresh |-> TRUE] ELSE NoFamily]

Administration(p, a) ==
    \/ \E st \in {"enabled", "disabled", "archived"} : update_provider(p, a, [catalog EXCEPT !.status = st])
    \/ update_provider(p, a, [catalog EXCEPT !.login = FALSE])
    \/ create_connection(p, a, c2, j1, n2)
    \/ \E c \in Connections :
          \/ \E ns \in Namespaces : update_connection(p, a, c, ns, named)
          \/ \E st \in {"active", "disabled"} : _set_status(p, a, c, st)
          \/ set_credentials(p, a, c) \/ delete_connection(p, a, c, named)
    \/ \E b \in BindingIds :
          \/ \E c \in Connections, r \in {OpenRow, [OpenRow EXCEPT !.enabled = FALSE],
                                         [OpenRow EXCEPT !.mode = "disabled"]} :
                upsert_binding(p, a, b, [r EXCEPT !.conn = c])
          \/ delete_binding(p, a, b)
          \/ \E kind \in Kinds : \/ add_binding_url(p, a, b, kind, l1)
                                 \/ remove_binding_url(p, a, b, kind, l1)

\* Root may do all that a project admin may, with the same effect.
Writes == /\ writes < MaxWrites /\ writes' = writes + 1
          /\ \E p \in Processes : Administration(p, root)
          /\ UNCHANGED flowVars

RoundTrips ==
    \/ \E s \in States : DeadlinePasses(s)
    \/ \E h \in Callbacks : \/ Callback(h)
                            \/ \E s \in States, p \in Processes : consume_state(h, p, s)
Sessions ==
    \/ \E f \in Families : SessionChanges(f) \/ MarkerExpires(f) \/ unlink(p1, f, k1)
    \/ \E u \in Users : revoke_user_auth_state(u)

OtherScenes ==
    \/ /\ scene = "admin"
       /\ \/ Writes
          \/ /\ UNCHANGED <<flowVars, writes>>
             /\ \/ OutsideChange([up EXCEPT !.group = ~@]) \/ OutsideChange([up EXCEPT !.projects = {}])
                \/ \E x \in {<<"binding", k1>>, <<"ids", c1, b1>>} : CacheExpires(p1, x) \/ LooksUp(p1, x)
    \/ scene # "admin" /\ UNCHANGED writes /\ (RoundTrips \/ Sessions)
    \/ /\ scene = "login" /\ writes < 1 /\ writes' = 1 /\ UNCHANGED flowVars
       /\ \/ \E r \in {[OpenRow EXCEPT !.enabled = FALSE], [OpenRow EXCEPT !.mode = "disabled"]} :
                upsert_binding(p2, admin, b1, r)
          \/ update_connection(p2, root, c1, n2, named)
          \/ OutsideChange([up EXCEPT !.projects = {}])
    \/ /\ scene = "login" /\ UNCHANGED writes
       /\ \/ UserChanges(u1, [users[u1] EXCEPT !.hash = hash_password("chosen")])
          \/ \E t \in InitTokens : oauth_init(p1, k1, t) \/ \E s \in States : start_from_init_token(p1, t, s)
    \/ /\ scene = "link" /\ UNCHANGED writes
       /\ \/ \E s \in States, q \in {"link", "reauth"} : start_session_round_trip(p1, f1, k1, s, q)
          \/ UserChanges(u1, [users[u1] EXCEPT !.access = FALSE])

SceneNext ==
    /\ UNCHANGED scene
    /\ \/ scene = "keys" /\ KeysNext /\ UNCHANGED <<configVars, flowVars, writes>>
       \/ scene # "keys" /\ UNCHANGED idVars /\ OtherScenes

SceneSpec == SceneInit /\ [][SceneNext]_sceneVars
=============================================================================
