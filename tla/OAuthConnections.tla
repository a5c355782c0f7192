-------------------------- MODULE OAuthConnections --------------------------
(***************************************************************************)
(* The configuration of OAuth sign-in: the provider catalog, connections   *)
(* (app registrations with write-only credentials), the bindings of a      *)
(* connection to a project, their allowed URLs, and the copy of the        *)
(* binding rows every process keeps for 30 seconds.  One provider type.    *)
(***************************************************************************)
EXTENDS Naturals, FiniteSets

CONSTANTS
    Connections, BindingIds, Keys, Projects, Namespaces, Urls,
    Processes, Actors,
    Root,        \* the actors that are root
    Administers, \* actor -> the projects it administers
    ProjectOf,   \* connection key -> its project
    None

VARIABLES
    catalog,  \* the catalog entry: status, login, link
    conns,    \* connection -> its row
    binds,    \* binding id -> its row, NoRow, or Gone
    allowed,  \* binding id -> kind of URL -> the URLs on the list
    up,       \* what the rows join with: active projects, usable default group
    cache,    \* process -> cache key -> row, NoRow or NoEntry
    writer    \* the process whose administration wrote last

configVars == <<catalog, conns, binds, allowed, up, cache, writer>>

NoRow == [row |-> "none"]
NoEntry == [row |-> "not cached"]
Gone == [row |-> "deleted"]
Bound(b) == binds[b] \notin {NoRow, Gone}
NoConnection == [st |-> "none", cred |-> "absent", ns |-> None, owner |-> None]
Kinds == {"redirect_uri", "return_origin"}

CacheKeys == {<<"binding", k>> : k \in Keys} \cup {<<"ids", c, b>> : c \in Connections, b \in BindingIds}

\* sp_oauth_binding_select: a binding joined with its project, connection,
\* provider type, default group and allowed URLs.
sp_oauth_binding_select(b) ==
    [id |-> b, bind |-> binds[b], conn |-> conns[binds[b].conn], catalog |-> catalog,
     urls |-> allowed[b], project |-> ProjectOf[binds[b].key] \in up.projects, group |-> up.group]
Load(x) ==
    LET found == {b \in BindingIds : /\ Bound(b)
                                     /\ x \in {<<"binding", binds[b].key>>, <<"ids", binds[b].conn, b>>}}
    IN IF found = {} THEN NoRow ELSE sp_oauth_binding_select(CHOOSE b \in found : TRUE)

\* _cached: a hit, absent rows included, or a read of the database.
Cached(p, x) == IF cache[p][x] # NoEntry THEN cache[p][x] ELSE Load(x)
Remember(p, x) == cache' = [cache EXCEPT ![p][x] = Cached(p, x)]
CacheExpires(p, x) ==
    /\ cache[p][x] # NoEntry
    /\ cache' = [cache EXCEPT ![p][x] = NoEntry]
    /\ UNCHANGED <<catalog, conns, binds, allowed, up, writer>>

AutoCreates(mode) == mode \in {"auto_create", "both"}
Links(mode) == mode \in {"link_only", "both"}

evaluate_binding_row(r) ==
    (IF r.catalog.status \notin {"enabled", "degraded"} THEN {"provider_type_disabled"} ELSE {})
    \cup (IF r.conn.st # "active" THEN {"connection_not_active"} ELSE {})
    \cup (IF r.conn.cred # "active" THEN {"credentials_not_active"} ELSE {})
    \cup (IF ~r.bind.enabled THEN {"binding_disabled"} ELSE {})
    \cup (IF ~r.project THEN {"project_inactive"} ELSE {})
    \cup (IF r.urls["redirect_uri"] = {} THEN {"no_redirect_uri"} ELSE {})
    \cup (IF r.urls["return_origin"] = {} THEN {"no_return_origin"} ELSE {})
    \cup (IF AutoCreates(r.bind.mode) /\ ~(r.bind.group /\ r.group) THEN {"default_group"} ELSE {})
NonBlocking == {"no_redirect_uri", "no_return_origin", "default_group"}
\* DatabaseConnectionSource._build: the row can be used.
Available(r) == r # NoRow /\ evaluate_binding_row(r) \subseteq NonBlocking
\* What it is then used for: the binding and the catalog entry allow it; the
\* default group is usable.
LoginEnabled(r) == r.bind.login /\ r.catalog.login
LinkEnabled(r) == r.bind.link /\ r.catalog.link
DefaultGroup(r) == r.bind.group /\ r.group

\* The project admin's own page, and the providers a backend may offer.
ReadinessOf(project) ==
    [b \in {c \in BindingIds : Bound(c) /\ ProjectOf[binds[c].key] = project} |->
        evaluate_binding_row(sp_oauth_binding_select(b))]
oauth_providers(project) ==
    {b \in DOMAIN ReadinessOf(project) : /\ ReadinessOf(project)[b] \subseteq NonBlocking
                                         /\ LoginEnabled(sp_oauth_binding_select(b))}

----------------------------------------------------------------------------
(* Who may do what.                                                         *)

require_oauth_root(a) == a \in Root
_assert_project_access(a, project) == a \in Root \/ project \in Administers[a]

\* An administration handler ends by clearing the cache of its process.
\* Mutation: only the entries of the project's keys are cleared.
InvalidateByKey(p) ==
    /\ cache' = [cache EXCEPT ![p] = [x \in CacheKeys |->
                    IF x[1] = "binding" THEN NoEntry ELSE cache[p][x]]]
    /\ writer' = p
invalidate_connection_cache(p) ==
    /\ cache' = [cache EXCEPT ![p] = [x \in CacheKeys |-> NoEntry]]
    /\ writer' = p

update_provider(p, a, entry) ==
    /\ require_oauth_root(a)
    /\ catalog' = entry
    /\ invalidate_connection_cache(p)
    /\ UNCHANGED <<conns, binds, allowed, up>>

create_connection(p, a, c, owner, ns) ==
    /\ require_oauth_root(a) /\ conns[c].st = "none"
    /\ catalog.status # "archived" /\ (catalog.login \/ catalog.link)
    /\ conns' = [conns EXCEPT ![c] = [st |-> "draft", cred |-> "absent", ns |-> ns, owner |-> owner]]
    /\ invalidate_connection_cache(p)
    /\ UNCHANGED <<catalog, binds, allowed, up>>

\* The namespace (issuer, tenant, team) is fixed once an identity row names
\* the connection; "rows" are the connections such rows name.
update_connection(p, a, c, ns, rows) ==
    /\ require_oauth_root(a) /\ conns[c].st \notin {"none", "deleted"}
    /\ ns # conns[c].ns => c \notin rows
    /\ conns' = [conns EXCEPT ![c].ns = ns]
    /\ invalidate_connection_cache(p)
    /\ UNCHANGED <<catalog, binds, allowed, up>>

_set_status(p, a, c, st) ==
    /\ require_oauth_root(a) /\ conns[c].st \notin {"none", "deleted"}
    /\ st = "active" => conns[c].cred = "active"
    /\ conns' = [conns EXCEPT ![c].st = st]
    /\ invalidate_connection_cache(p)
    /\ UNCHANGED <<catalog, binds, allowed, up>>

\* The stored secrets become active whatever the status of the connection.
set_credentials(p, a, c) ==
    /\ require_oauth_root(a) /\ conns[c].st \notin {"none", "deleted"}
    /\ conns' = [conns EXCEPT ![c].cred = "active"]
    /\ invalidate_connection_cache(p)
    /\ UNCHANGED <<catalog, binds, allowed, up>>

\* Archived, its secrets erased, when an identity row names it.
delete_connection(p, a, c, rows) ==
    /\ require_oauth_root(a) /\ conns[c].st \notin {"none", "deleted"}
    /\ \A b \in BindingIds : Bound(b) => binds[b].conn # c
    /\ conns' = [conns EXCEPT ![c] = IF c \in rows
                    THEN [conns[c] EXCEPT !.st = "archived", !.cred = "revoked"]
                    ELSE [NoConnection EXCEPT !.st = "deleted"]]
    /\ invalidate_connection_cache(p)
    /\ UNCHANGED <<catalog, binds, allowed, up>>

\* A binding names a connection of its own project, or a shared one, or root
\* says so; a project binds a connection once.
upsert_binding(p, a, b, row) ==
    LET project == ProjectOf[row.key] IN
    /\ _assert_project_access(a, project)
    /\ binds[b] # NoRow => Bound(b) /\ binds[b].key = row.key
    /\ conns[row.conn].st \notin {"none", "deleted", "archived"}
    /\ conns[row.conn].owner \in {None, project} \/ a \in Root
    /\ row.group => up.group
    /\ AutoCreates(row.mode) \/ row.join => row.group
    /\ \A o \in BindingIds \ {b} : Bound(o) =>
          binds[o].key # row.key /\ (ProjectOf[binds[o].key] = project => binds[o].conn # row.conn)
    /\ binds' = [binds EXCEPT ![b] = row]
    /\ invalidate_connection_cache(p)
    /\ UNCHANGED <<catalog, conns, allowed, up>>

delete_binding(p, a, b) ==
    /\ Bound(b) /\ _assert_project_access(a, ProjectOf[binds[b].key])
    /\ binds' = [binds EXCEPT ![b] = Gone]
    /\ allowed' = [allowed EXCEPT ![b] = [k \in Kinds |-> {}]]
    /\ invalidate_connection_cache(p)
    /\ UNCHANGED <<catalog, conns, up>>

add_binding_url(p, a, b, kind, url) ==
    /\ Bound(b) /\ _assert_project_access(a, ProjectOf[binds[b].key])
    /\ allowed' = [allowed EXCEPT ![b][kind] = @ \cup {url}]
    /\ invalidate_connection_cache(p)
    /\ UNCHANGED <<catalog, conns, binds, up>>

remove_binding_url(p, a, b, kind, url) ==
    /\ Bound(b) /\ _assert_project_access(a, ProjectOf[binds[b].key])
    /\ url \in allowed[b][kind]
    /\ allowed' = [allowed EXCEPT ![b][kind] = @ \ {url}]
    /\ invalidate_connection_cache(p)
    /\ UNCHANGED <<catalog, conns, binds, up>>

\* Projects and groups change through their own routes, which do not touch
\* this cache.
OutsideChange(now) ==
    /\ up' = now /\ writer' = None
    /\ UNCHANGED <<catalog, conns, binds, allowed, cache>>

\* A process reads a binding.
LooksUp(p, x) ==
    /\ Remember(p, x)
    /\ UNCHANGED <<catalog, conns, binds, allowed, up, writer>>

----------------------------------------------------------------------------

CatalogEntry == [status : {"disabled", "enabled", "degraded", "archived"},
                 login : BOOLEAN, link : BOOLEAN]
BindingRow == [key : Keys, conn : Connections, enabled : BOOLEAN, login : BOOLEAN, link : BOOLEAN,
               mode : {"disabled", "link_only", "auto_create", "both"},
               group : BOOLEAN, join : BOOLEAN]

ConfigInit ==
    /\ catalog \in CatalogEntry
    /\ conns = [c \in Connections |-> NoConnection] /\ binds = [b \in BindingIds |-> NoRow]
    /\ allowed = [b \in BindingIds |-> [k \in Kinds |-> {}]]
    /\ up \in [projects : SUBSET Projects, group : BOOLEAN]
    /\ cache = [p \in Processes |-> [x \in CacheKeys |-> NoEntry]] /\ writer = None

AdminCall(p, a, rows) ==
    \/ \E entry \in CatalogEntry : update_provider(p, a, entry)
    \/ \E c \in Connections :
          \/ \E owner \in Projects \cup {None}, ns \in Namespaces : create_connection(p, a, c, owner, ns)
          \/ \E ns \in Namespaces : update_connection(p, a, c, ns, rows)
          \/ \E st \in {"active", "disabled"} : _set_status(p, a, c, st)
          \/ set_credentials(p, a, c) \/ delete_connection(p, a, c, rows)
    \/ \E b \in BindingIds :
          \/ \E row \in BindingRow : upsert_binding(p, a, b, row)
          \/ delete_binding(p, a, b)
          \/ \E kind \in Kinds, url \in Urls : \/ add_binding_url(p, a, b, kind, url)
                                               \/ remove_binding_url(p, a, b, kind, url)

ConfigNext(rows) ==
    \/ \E p \in Processes, a \in Actors : AdminCall(p, a, rows)
    \/ \E now \in [projects : SUBSET Projects, group : BOOLEAN] : OutsideChange(now)
    \/ \E p \in Processes, x \in CacheKeys : CacheExpires(p, x) \/ LooksUp(p, x)

ConfigSpec == ConfigInit /\ [][\E rows \in SUBSET Connections : ConfigNext(rows)]_configVars

----------------------------------------------------------------------------
(* Properties.                                                              *)

\* "Changes invalidate this instance's connection cache at once": after an
\* administration call no entry of the process that served it is older than
\* the tables, whichever key the entry is stored under, and every binding the
\* providers page offers is one that this process can sign in with.
OwnChangesSeen ==
    writer # None =>
        /\ \A x \in CacheKeys : cache[writer][x] \in {NoEntry, Load(x)}
        /\ \A j \in Projects : \A b \in oauth_providers(j) :
              LET r == Cached(writer, <<"binding", binds[b].key>>) IN Available(r) /\ LoginEnabled(r)
=============================================================================
