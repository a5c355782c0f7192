---------------------------- MODULE OAuth_proofs ----------------------------
(***************************************************************************)
(* Sign-in and linking with an external identity, for any number of        *)
(* processes, callbacks, users and configured connections: a process whose *)
(* administrator wrote last shows the tables, a round trip ends in one     *)
(* outcome at most, and a link is only made in a live session.  Then the   *)
(* shared copy of the provider's signing keys, for any number of threads,  *)
(* keys and tokens: nobody is refused because the copy is old.             *)
(***************************************************************************)
EXTENDS OAuthFlow, OAuthIdTokens, TLAPS

-----------------------------------------------------------------------------
(* The configuration. *)

\* A project binds one connection under a key, and who wrote last has nothing
\* older than the tables.
ConfigOK ==
    /\ binds \in [BindingIds -> {NoRow, Gone} \cup BindingRow]
    /\ cache = [p \in Processes |-> cache[p]]
    /\ \A p \in Processes : cache[p] = [x \in CacheKeys |-> cache[p][x]]
    /\ writer \in Processes \cup {None}
OneRowOfKey ==
    \A b, c \in BindingIds : Bound(b) /\ Bound(c) /\ binds[b].key = binds[c].key => b = c
Seen == writer # None => \A x \in CacheKeys : cache[writer][x] \in {NoEntry, Load(x)}
ConfigInv == ConfigOK /\ OneRowOfKey /\ Seen

LEMMA BoundRow ==
  ASSUME ConfigOK, NEW b \in BindingIds, Bound(b) PROVE binds[b] \in BindingRow /\ binds[b].key \in Keys
<1>1. binds[b] \in BindingRow
  BY DEF ConfigOK, Bound
<1> QED BY <1>1 DEF BindingRow

\* What the key of a binding finds is that binding.
LEMMA LoadsByKey ==
  ASSUME ConfigOK, OneRowOfKey, NEW b \in BindingIds, Bound(b)
  PROVE  Load(<<"binding", binds[b].key>>) = sp_oauth_binding_select(b)
<1> DEFINE x == <<"binding", binds[b].key>>
           found == {c \in BindingIds : /\ Bound(c)
                                        /\ x \in {<<"binding", binds[c].key>>, <<"ids", binds[c].conn, c>>}}
<1>1. ASSUME NEW c \in BindingIds, Bound(c) PROVE x \in {<<"binding", binds[c].key>>, <<"ids", binds[c].conn, c>>} <=> c = b
  <2>1. x # <<"ids", binds[c].conn, c>>
    OBVIOUS
  <2>2. x = <<"binding", binds[c].key>> <=> binds[c].key = binds[b].key
    OBVIOUS
  <2> QED BY <1>1, <2>1, <2>2 DEF OneRowOfKey
<1>2. found = {b}
  BY <1>1
<1>3. Load(x) = IF found = {} THEN NoRow ELSE sp_oauth_binding_select(CHOOSE c \in found : TRUE)
  BY DEF Load
<1> HIDE DEF x, found
<1>4. (CHOOSE c \in {b} : TRUE) = b
  OBVIOUS
<1>5. Load(x) = sp_oauth_binding_select(b)
  BY <1>2, <1>3, <1>4
<1> QED BY <1>5 DEF x

LEMMA SelectedIsRow == ASSUME NEW b PROVE sp_oauth_binding_select(b) # NoRow
<1>1. "id" \in DOMAIN sp_oauth_binding_select(b) /\ "id" \notin DOMAIN NoRow
  BY DEF sp_oauth_binding_select, NoRow
<1> QED BY <1>1

LEMMA ConfigSeen == ConfigInv => OwnChangesSeen
<1> SUFFICES ASSUME ConfigInv, writer # None
             PROVE  /\ \A x \in CacheKeys : cache[writer][x] \in {NoEntry, Load(x)}
                    /\ \A j \in Projects : \A b \in oauth_providers(j) :
                          /\ Available(Cached(writer, <<"binding", binds[b].key>>))
                          /\ LoginEnabled(Cached(writer, <<"binding", binds[b].key>>))
  BY DEF OwnChangesSeen
<1>1. \A x \in CacheKeys : cache[writer][x] \in {NoEntry, Load(x)}
  BY DEF ConfigInv, Seen
<1>2. ASSUME NEW j \in Projects, NEW b \in oauth_providers(j)
      PROVE  /\ Available(Cached(writer, <<"binding", binds[b].key>>))
             /\ LoginEnabled(Cached(writer, <<"binding", binds[b].key>>))
  <2> DEFINE mine == {c \in BindingIds : Bound(c) /\ ProjectOf[binds[c].key] = j}
             x == <<"binding", binds[b].key>>
  <2>1. ReadinessOf(j) = [c \in mine |-> evaluate_binding_row(sp_oauth_binding_select(c))]
    BY DEF ReadinessOf
  <2>2. b \in mine /\ ReadinessOf(j)[b] \subseteq NonBlocking /\ LoginEnabled(sp_oauth_binding_select(b))
    BY <2>1 DEF oauth_providers
  <2>3. b \in BindingIds /\ Bound(b) /\ evaluate_binding_row(sp_oauth_binding_select(b)) \subseteq NonBlocking
    BY <2>1, <2>2
  <2>4. x \in CacheKeys
    BY <2>3, BoundRow DEF ConfigInv, CacheKeys
  <2>5. Load(x) = sp_oauth_binding_select(b)
    BY <2>3, LoadsByKey DEF ConfigInv
  <2>6. Cached(writer, x) = Load(x)
    BY <1>1, <2>4 DEF Cached
  <2>7. Cached(writer, x) = sp_oauth_binding_select(b)
    BY <2>5, <2>6
  <2>8. LoginEnabled(Cached(writer, x))
    BY <2>2, <2>7
  <2>9. Available(Cached(writer, x))
    BY <2>3, <2>7, SelectedIsRow DEF Available
  <2> QED BY <2>8, <2>9
<1> QED BY <1>1, <1>2

LEMMA ConfigInitInv == ConfigInit => ConfigInv
BY DEF ConfigInit, ConfigInv, ConfigOK, OneRowOfKey, Seen, Bound

\* An administration call: the rows it writes keep a key to themselves.
LEMMA AdminWrites ==
  ASSUME ConfigInv, NEW p \in Processes, invalidate_connection_cache(p),
         binds' \in [BindingIds -> {NoRow, Gone} \cup BindingRow], OneRowOfKey'
  PROVE  ConfigInv'
<1>1. cache' = [cache EXCEPT ![p] = [x \in CacheKeys |-> NoEntry]] /\ writer' = p
  BY DEF invalidate_connection_cache
<1>2. /\ cache' = [q \in Processes |-> cache'[q]]
      /\ \A q \in Processes : cache'[q] = [x \in CacheKeys |-> cache'[q][x]]
      /\ \A x \in CacheKeys : cache'[p][x] = NoEntry
  BY <1>1 DEF ConfigInv, ConfigOK
<1>3. Seen'
  BY <1>1, <1>2 DEF Seen
<1> QED BY <1>1, <1>2, <1>3 DEF ConfigInv, ConfigOK

LEMMA RowsStay ==
  ASSUME ConfigInv, UNCHANGED binds
  PROVE  binds' \in [BindingIds -> {NoRow, Gone} \cup BindingRow] /\ OneRowOfKey'
BY DEF ConfigInv, ConfigOK, OneRowOfKey, Bound

LEMMA Upserts ==
  ASSUME ConfigInv, NEW p \in Processes, NEW a, NEW b \in BindingIds, NEW row \in BindingRow,
         upsert_binding(p, a, b, row)
  PROVE  ConfigInv'
<1>1. /\ invalidate_connection_cache(p) /\ binds' = [binds EXCEPT ![b] = row]
      /\ \A o \in BindingIds \ {b} : Bound(o) => binds[o].key # row.key
  BY DEF upsert_binding
<1>2. binds' \in [BindingIds -> {NoRow, Gone} \cup BindingRow]
  BY <1>1 DEF ConfigInv, ConfigOK
<1>3. binds'[b] = row /\ \A o \in BindingIds \ {b} : binds'[o] = binds[o]
  BY <1>1 DEF ConfigInv, ConfigOK
<1>4. OneRowOfKey'
  BY <1>1, <1>3 DEF ConfigInv, OneRowOfKey, Bound
<1> QED BY <1>1, <1>2, <1>4, AdminWrites

LEMMA Deletes ==
  ASSUME ConfigInv, NEW p \in Processes, NEW a, NEW b \in BindingIds, delete_binding(p, a, b)
  PROVE  ConfigInv'
<1>1. invalidate_connection_cache(p) /\ binds' = [binds EXCEPT ![b] = Gone]
  BY DEF delete_binding
<1>2. binds' \in [BindingIds -> {NoRow, Gone} \cup BindingRow]
  BY <1>1 DEF ConfigInv, ConfigOK
<1>3. binds'[b] = Gone /\ \A o \in BindingIds \ {b} : binds'[o] = binds[o]
  BY <1>1 DEF ConfigInv, ConfigOK
<1>4. OneRowOfKey'
  BY <1>3 DEF ConfigInv, OneRowOfKey, Bound
<1> QED BY <1>1, <1>2, <1>4, AdminWrites

LEMMA AdminStep ==
  ASSUME ConfigInv, NEW p \in Processes, NEW a, NEW rows, AdminCall(p, a, rows) PROVE ConfigInv'
<1>1. ASSUME NEW b \in BindingIds, NEW row \in BindingRow, upsert_binding(p, a, b, row) PROVE ConfigInv'
  BY <1>1, Upserts
<1>2. ASSUME NEW b \in BindingIds, delete_binding(p, a, b) PROVE ConfigInv'
  BY <1>2, Deletes
<1>3. ASSUME UNCHANGED binds, invalidate_connection_cache(p) PROVE ConfigInv'
  BY <1>3, RowsStay, AdminWrites
<1>4. ASSUME NEW c \in Connections,
             \/ \E owner \in Projects \cup {None}, ns \in Namespaces : create_connection(p, a, c, owner, ns)
             \/ \E ns \in Namespaces : update_connection(p, a, c, ns, rows)
             \/ \E st \in {"active", "disabled"} : _set_status(p, a, c, st)
             \/ set_credentials(p, a, c) \/ delete_connection(p, a, c, rows)
      PROVE  ConfigInv'
  BY <1>3, <1>4 DEF create_connection, update_connection, _set_status, set_credentials, delete_connection
<1>5. ASSUME NEW listed \in CatalogEntry, update_provider(p, a, listed) PROVE ConfigInv'
  BY <1>3, <1>5 DEF update_provider
<1>6. ASSUME NEW b \in BindingIds, NEW kind \in Kinds, NEW url \in Urls,
             add_binding_url(p, a, b, kind, url) \/ remove_binding_url(p, a, b, kind, url)
      PROVE  ConfigInv'
  BY <1>3, <1>6 DEF add_binding_url, remove_binding_url
<1> QED BY <1>1, <1>2, <1>4, <1>5, <1>6 DEF AdminCall

\* A process reads a binding, or its copy runs out.
LEMMA CopyChanges ==
  ASSUME ConfigInv, NEW p \in Processes, NEW x \in CacheKeys,
         UNCHANGED <<catalog, conns, binds, allowed, up, writer>>,
         NEW v \in {NoEntry, Cached(p, x)}, cache' = [cache EXCEPT ![p][x] = v]
  PROVE  ConfigInv'
<1>1. /\ cache' = [q \in Processes |-> cache'[q]]
      /\ \A q \in Processes : cache'[q] = [y \in CacheKeys |-> cache'[q][y]]
      /\ cache'[p][x] = v
      /\ \A q \in Processes, y \in CacheKeys : q # p \/ y # x => cache'[q][y] = cache[q][y]
  BY DEF ConfigInv, ConfigOK
<1>2. ASSUME NEW y \in CacheKeys PROVE Load(y)' = Load(y)
  BY DEF Load, sp_oauth_binding_select, Bound
<1>3. Seen'
  <2> SUFFICES ASSUME writer # None, NEW y \in CacheKeys PROVE cache'[writer][y] \in {NoEntry, Load(y)}
    BY <1>2 DEF Seen
  <2>1. cache[writer][y] \in {NoEntry, Load(y)} /\ writer \in Processes
    BY DEF ConfigInv, Seen, ConfigOK
  <2>2. CASE writer = p /\ y = x
    BY <1>1, <2>1, <2>2 DEF Cached
  <2>3. CASE writer # p \/ y # x
    BY <1>1, <2>1, <2>3
  <2> QED BY <2>2, <2>3
<1> QED BY <1>1, <1>3, RowsStay DEF ConfigInv, ConfigOK

LEMMA ConfigStays == ASSUME ConfigInv, UNCHANGED configVars PROVE ConfigInv'
<1>1. ASSUME NEW y \in CacheKeys PROVE Load(y)' = Load(y)
  BY DEF Load, sp_oauth_binding_select, Bound, configVars
<1>2. Seen'
  BY <1>1 DEF ConfigInv, Seen, configVars
<1> QED BY <1>2, RowsStay DEF ConfigInv, ConfigOK, configVars

LEMMA Reads ==
  ASSUME ConfigInv, NEW p, NEW x, Remember(p, x), UNCHANGED <<catalog, conns, binds, allowed, up, writer>>
  PROVE  ConfigInv'
<1> PICK v : v = Cached(p, x)
  OBVIOUS
<1>1. cache' = [cache EXCEPT ![p][x] = v]
  BY DEF Remember
<1>2. CASE p \in Processes /\ x \in CacheKeys
  BY <1>1, <1>2, CopyChanges
<1>3. CASE p \notin Processes
  <2>1. cache' = cache
    BY <1>1, <1>3 DEF ConfigInv, ConfigOK
  <2> QED BY <2>1, ConfigStays DEF configVars
<1>4. CASE p \in Processes /\ x \notin CacheKeys
  <2>1. [cache[p] EXCEPT ![x] = v] = cache[p]
    BY <1>4 DEF ConfigInv, ConfigOK
  <2>2. cache' = [cache EXCEPT ![p] = [cache[p] EXCEPT ![x] = v]]
    BY <1>1
  <2>3. cache' = cache
    BY <1>4, <2>1, <2>2 DEF ConfigInv, ConfigOK
  <2> QED BY <2>3, ConfigStays DEF configVars
<1> QED BY <1>2, <1>3, <1>4

LEMMA ConfigStep == ASSUME ConfigInv, NEW rows, ConfigNext(rows) PROVE ConfigInv'
<1>1. ASSUME NEW p \in Processes, NEW a \in Actors, AdminCall(p, a, rows) PROVE ConfigInv'
  BY <1>1, AdminStep
<1>2. ASSUME NEW now, OutsideChange(now) PROVE ConfigInv'
  BY <1>2, RowsStay DEF OutsideChange, ConfigInv, ConfigOK, Seen
<1>3. ASSUME NEW p \in Processes, NEW x \in CacheKeys, CacheExpires(p, x) PROVE ConfigInv'
  BY <1>3, CopyChanges DEF CacheExpires
<1>4. ASSUME NEW p \in Processes, NEW x \in CacheKeys, LooksUp(p, x) PROVE ConfigInv'
  BY <1>4, Reads DEF LooksUp
<1> QED BY <1>1, <1>2, <1>3, <1>4 DEF ConfigNext

-----------------------------------------------------------------------------
(* Round trips. *)

\* A round trip of a session names its family; a callback is one of a trip.
TripRecord(r) ==
    /\ r.purpose \in {"login", "link", "reauth"}
    /\ r.purpose # "login" => r.fam \in Families
Busy(h) == cb[h].at # "idle"
Shaped(c) ==
    c = [at |-> c.at, proc |-> c.proc, state |-> c.state, rec |-> c.rec, row |-> c.row,
         id |-> c.id, user |-> c.user, tries |-> c.tries, dirty |-> c.dirty]
CallbackRow(c) ==
    /\ Shaped(c)
    /\ c.at # "idle" => c.state \in States /\ TripRecord(c.rec)
    /\ c.at \in {"link", "reauth", "authorizing", "watching"} => c.rec.fam \in Families
CallbackOK(h) == CallbackRow(cb[h])
FlowOK ==
    /\ cb = [h \in Callbacks |-> cb[h]] /\ \A h \in Callbacks : CallbackOK(h)
    /\ states = [s \in States |-> states[s]]
    /\ \A s \in States : states[s] \in {Unused, Used} \/ TripRecord(states[s])
    /\ outcomes \in [States -> Nat]
    /\ family = [f \in Families |-> family[f]]
    /\ \A f \in Families : family[f] = [user |-> family[f].user, live |-> family[f].live,
                                        fresh |-> family[f].fresh]
    /\ marker = [f \in Families |-> marker[f]]

\* A state is worth one outcome: in its record, in one callback, or spent.
Trip(s) ==
    /\ outcomes[s] <= 1
    /\ states[s] # Used => outcomes[s] = 0 /\ \A h \in Callbacks : Busy(h) => cb[h].state # s
    /\ \A h \in Callbacks : Busy(h) /\ cb[h].state = s =>
          outcomes[s] = 0 /\ \A i \in Callbacks : Busy(i) /\ cb[i].state = s => i = h
TripInv == \A s \in States : Trip(s)

\* What a transaction that nobody has disturbed has read is still so.
Stands(h) ==
    cb[h].at = "watching" /\ ~cb[h].dirty =>
       /\ cb[h].state \in completions
       /\ family[cb[h].rec.fam].live
       /\ cb[h].rec.purpose = "link" /\ cb[h].rec.proof[1] = "marker"
             => cb[h].rec.proof[2] = marker[cb[h].rec.fam]
FlowInv == FlowOK /\ TripInv /\ \A h \in Callbacks : Stands(h)

LEMMA FlowInitInv == FlowInit => FlowInv
<1> SUFFICES ASSUME FlowInit PROVE FlowInv
  OBVIOUS
<1>1. /\ cb = [h \in Callbacks |-> Idle] /\ states = [s \in States |-> Unused]
      /\ outcomes = [s \in States |-> 0] /\ marker = [f \in Families |-> 0]
      /\ family \in [Families -> {NoFamily} \cup [user : Users, live : BOOLEAN, fresh : BOOLEAN]]
  BY DEF FlowInit
<1>2. \A h \in Callbacks : CallbackOK(h) /\ ~Busy(h) /\ Stands(h)
  BY <1>1 DEF CallbackOK, CallbackRow, Shaped, Idle, Busy, Stands
<1>3. \A f \in Families : family[f] = [user |-> family[f].user, live |-> family[f].live,
                                       fresh |-> family[f].fresh]
  <2> SUFFICES ASSUME NEW f \in Families
               PROVE  family[f] = [user |-> family[f].user, live |-> family[f].live, fresh |-> family[f].fresh]
    OBVIOUS
  <2>1. CASE family[f] = NoFamily
    BY <2>1 DEF NoFamily
  <2>2. CASE family[f] \in [user : Users, live : BOOLEAN, fresh : BOOLEAN]
    BY <2>2
  <2> QED BY <1>1, <2>1, <2>2
<1>4. FlowOK
  BY <1>1, <1>2, <1>3 DEF FlowOK
<1>5. TripInv
  BY <1>1, <1>2 DEF TripInv, Trip
<1> QED BY <1>2, <1>4, <1>5 DEF FlowInv

\* Steps under which every callback stays on its trip, or ends.
OnTrip(h) ==
    /\ CallbackOK(h)'
    /\ Busy(h)' => Busy(h) /\ cb'[h].state = cb[h].state
LEMMA TripsKept ==
  ASSUME TripInv, UNCHANGED outcomes, \A s \in States : states'[s] # Used => states[s] # Used,
         \A h \in Callbacks : OnTrip(h)
  PROVE  TripInv'
BY DEF TripInv, Trip, OnTrip

\* A transaction that goes on has what it read.
StaysRead(h) ==
    cb'[h].at = "watching" /\ ~cb'[h].dirty =>
       /\ cb[h].at = "watching" /\ ~cb[h].dirty /\ cb'[h].state = cb[h].state /\ cb'[h].rec = cb[h].rec
       /\ cb[h].state \in completions => cb[h].state \in completions'
       /\ family[cb[h].rec.fam].live => family'[cb[h].rec.fam].live
       /\ marker'[cb[h].rec.fam] = marker[cb[h].rec.fam]
LEMMA StillStands == ASSUME NEW h \in Callbacks, Stands(h), StaysRead(h) PROVE Stands(h)'
BY DEF Stands, StaysRead

\* A step of no callback.
LEMMA CallbacksStay ==
  ASSUME FlowInv, UNCHANGED <<cb, outcomes, family, marker>>, completions \subseteq completions',
         states' = [s \in States |-> states'[s]],
         \A s \in States : states'[s] \in {Unused, Used} \/ TripRecord(states'[s]),
         \A s \in States : states'[s] # Used => states[s] # Used
  PROVE  FlowInv'
<1>1. FlowOK'
  BY DEF FlowInv, FlowOK, CallbackOK, Busy
<1>2. \A h \in Callbacks : OnTrip(h) /\ StaysRead(h)
  BY DEF FlowInv, FlowOK, CallbackOK, Busy, OnTrip, StaysRead
<1> QED BY <1>1, <1>2, TripsKept, StillStands DEF FlowInv

\* Unused and Used are no records of a trip, and no one record is both.
LEMMA Marks == Unused # Used /\ Unused.purpose = "unused" /\ Used.purpose = "used"
BY DEF Unused, Used

LEMMA CreatesState ==
  ASSUME FlowInv, NEW s \in States, NEW rec, TripRecord(rec), create_state(s, rec),
         UNCHANGED <<cb, outcomes, family, marker>>
  PROVE  FlowInv'
<1>1. states' = [states EXCEPT ![s] = rec] /\ states[s] = Unused /\ completions \subseteq completions'
  BY DEF create_state
<1>2. /\ states' = [t \in States |-> states'[t]]
      /\ \A t \in States : states'[t] = IF t = s THEN rec ELSE states[t]
  BY <1>1 DEF FlowInv, FlowOK
<1>3. \A t \in States : states'[t] \in {Unused, Used} \/ TripRecord(states'[t])
  BY <1>2 DEF FlowInv, FlowOK
<1>4. \A t \in States : states'[t] # Used => states[t] # Used
  BY <1>1, <1>2, Marks
<1> QED BY <1>1, <1>2, <1>3, <1>4, CallbacksStay

LEMMA StatesStay ==
  ASSUME FlowInv, UNCHANGED <<cb, outcomes, family, marker, states, completions>> PROVE FlowInv'
BY CallbacksStay DEF FlowInv, FlowOK

LEMMA StartsLogin ==
  ASSUME FlowInv, NEW p, NEW t, NEW s \in States, start_from_init_token(p, t, s) PROVE FlowInv'
<1> DEFINE rec == [purpose |-> "login", conn |-> inits[t].conn, bind |-> inits[t].bind, fam |-> None, proof |-> None]
<1>1. UNCHANGED <<cb, outcomes, family, marker>>
  BY DEF start_from_init_token
<1>2. TripRecord(rec)
  BY DEF TripRecord
<1>3. create_state(s, rec) \/ UNCHANGED <<states, completions>>
  BY DEF start_from_init_token
<1> QED BY <1>1, <1>2, <1>3, CreatesState, StatesStay

LEMMA StartsOfSession ==
  ASSUME FlowInv, NEW p, NEW f \in Families, NEW k, NEW s \in States, NEW q \in {"link", "reauth"},
         start_session_round_trip(p, f, k, s, q)
  PROVE  FlowInv'
<1>1. UNCHANGED <<cb, outcomes, family, marker>>
  BY DEF start_session_round_trip
<1>2. \E b, r, proof : create_state(s, [purpose |-> q, conn |-> b, bind |-> r, fam |-> f, proof |-> proof])
  BY DEF start_session_round_trip
<1>3. PICK b, r, proof : create_state(s, [purpose |-> q, conn |-> b, bind |-> r, fam |-> f, proof |-> proof])
  BY <1>2
<1>4. TripRecord([purpose |-> q, conn |-> b, bind |-> r, fam |-> f, proof |-> proof])
  BY DEF TripRecord
<1> QED BY <1>1, <1>3, <1>4, CreatesState

\* A step that disturbs the transactions whose reads it changes.
Disturbed(h) == cb'[h] = cb[h] \/ cb'[h] = [cb[h] EXCEPT !.dirty = TRUE]
LEMMA DisturbedFacts ==
  ASSUME NEW h, CallbackOK(h), Disturbed(h)
  PROVE  /\ OnTrip(h) /\ cb'[h].at = cb[h].at /\ cb'[h].state = cb[h].state /\ cb'[h].rec = cb[h].rec
         /\ cb'[h] = cb[h] \/ cb'[h].dirty
<1>1. CASE cb'[h] = cb[h]
  BY <1>1 DEF CallbackOK, CallbackRow, Shaped, OnTrip, Busy
<1>2. CASE cb'[h] = [cb[h] EXCEPT !.dirty = TRUE]
  <2>1. /\ cb'[h] = [at |-> cb[h].at, proc |-> cb[h].proc, state |-> cb[h].state, rec |-> cb[h].rec,
                     row |-> cb[h].row, id |-> cb[h].id, user |-> cb[h].user, tries |-> cb[h].tries,
                     dirty |-> TRUE]
    BY <1>2 DEF CallbackOK, CallbackRow, Shaped
  <2>2. /\ cb'[h].at = cb[h].at /\ cb'[h].state = cb[h].state /\ cb'[h].rec = cb[h].rec /\ cb'[h].dirty
        /\ cb'[h].proc = cb[h].proc /\ cb'[h].row = cb[h].row /\ cb'[h].id = cb[h].id
        /\ cb'[h].user = cb[h].user /\ cb'[h].tries = cb[h].tries /\ cb'[h].dirty = TRUE
    BY <2>1
  <2> QED BY <2>1, <2>2 DEF CallbackOK, CallbackRow, Shaped, OnTrip, Busy
<1> QED BY <1>1, <1>2 DEF Disturbed

FamiliesOK(fam, mark) ==
    /\ fam = [f \in Families |-> fam[f]]
    /\ \A f \in Families : fam[f] = [user |-> fam[f].user, live |-> fam[f].live, fresh |-> fam[f].fresh]
    /\ mark = [f \in Families |-> mark[f]]
LEMMA GoOn ==
  ASSUME FlowInv, cb' = [h \in Callbacks |-> cb'[h]], \A h \in Callbacks : OnTrip(h) /\ StaysRead(h),
         UNCHANGED outcomes, FamiliesOK(family', marker'), states' = [s \in States |-> states'[s]],
         \A s \in States : states'[s] \in {states[s], Used}
  PROVE  FlowInv'
<1>1. FlowOK'
  BY DEF FlowInv, FlowOK, OnTrip, FamiliesOK
<1> QED BY <1>1, TripsKept, StillStands DEF FlowInv

LEMMA Deadline == ASSUME FlowInv, NEW s \in States, DeadlinePasses(s) PROVE FlowInv'
<1>1. /\ states' = [states EXCEPT ![s] = Used] /\ completions' = completions \ {s}
      /\ cb' = [h \in Callbacks |-> IF cb[h].at = "watching" /\ cb[h].state = s
                                    THEN [cb[h] EXCEPT !.dirty = TRUE] ELSE cb[h]]
      /\ UNCHANGED <<outcomes, family, marker>>
  BY DEF DeadlinePasses
<1>2. states' = [t \in States |-> states'[t]] /\ \A t \in States : states'[t] \in {states[t], Used}
  BY <1>1 DEF FlowInv, FlowOK
<1>3. /\ cb' = [h \in Callbacks |-> cb'[h]] /\ \A h \in Callbacks : Disturbed(h)
  BY <1>1 DEF Disturbed
<1>4. ASSUME NEW h \in Callbacks, cb[h].at = "watching", cb'[h] = cb[h]
      PROVE  ~cb[h].dirty => cb[h].state # s
  <2>1. cb[h].state = s => cb'[h] = [cb[h] EXCEPT !.dirty = TRUE]
    BY <1>1, <1>4
  <2>2. CallbackOK(h)
    BY DEF FlowInv, FlowOK
  <2>3. [cb[h] EXCEPT !.dirty = TRUE].dirty = TRUE
    BY <2>2 DEF CallbackOK, CallbackRow, Shaped
  <2> QED BY <1>4, <2>1, <2>3
<1>5. FamiliesOK(family', marker')
  BY <1>1 DEF FlowInv, FlowOK, FamiliesOK
<1>6. \A h \in Callbacks : OnTrip(h) /\ StaysRead(h)
  BY <1>1, <1>3, <1>4, DisturbedFacts DEF FlowInv, FlowOK, StaysRead
<1> QED BY <1>1, <1>2, <1>3, <1>5, <1>6, GoOn

LEMMA Touches ==
  ASSUME FlowInv, NEW fs \in SUBSET Families, Touch(fs), UNCHANGED <<outcomes, states, completions>>,
         FamiliesOK(family', marker'),
         \A f \in Families \ fs : family'[f] = family[f] /\ marker'[f] = marker[f]
  PROVE  FlowInv'
<1>1. cb' = [h \in Callbacks |-> IF cb[h].at = "watching" /\ cb[h].rec.fam \in fs
                                 THEN [cb[h] EXCEPT !.dirty = TRUE] ELSE cb[h]]
  BY DEF Touch
<1>2. cb' = [h \in Callbacks |-> cb'[h]] /\ \A h \in Callbacks : Disturbed(h)
  BY <1>1 DEF Disturbed
<1>3. ASSUME NEW h \in Callbacks, cb'[h].at = "watching", ~cb'[h].dirty
      PROVE  cb[h].rec.fam \in Families \ fs
  <2>1. CallbackOK(h) /\ cb[h].at = "watching"
    BY <1>2, <1>3, DisturbedFacts DEF FlowInv, FlowOK
  <2>2. [cb[h] EXCEPT !.dirty = TRUE].dirty = TRUE
    BY <2>1 DEF CallbackOK, CallbackRow, Shaped
  <2>3. cb[h].rec.fam \in Families
    BY <2>1 DEF CallbackOK, CallbackRow, Shaped
  <2> QED BY <1>1, <1>3, <2>1, <2>2, <2>3
<1>4. \A h \in Callbacks : OnTrip(h) /\ StaysRead(h)
  BY <1>2, <1>3, DisturbedFacts DEF FlowInv, FlowOK, StaysRead
<1>5. states' = [s \in States |-> states'[s]] /\ \A s \in States : states'[s] \in {states[s], Used}
  BY DEF FlowInv, FlowOK
<1> QED BY <1>2, <1>4, <1>5, GoOn

LEMMA EndedRow ==
  ASSUME NEW r, NEW q, r = [user |-> r.user, live |-> r.live, fresh |-> r.fresh], q = [r EXCEPT !.live = FALSE]
  PROVE  q = [user |-> q.user, live |-> q.live, fresh |-> q.fresh]
OBVIOUS
LEMMA EndsFamilies ==
  ASSUME FlowOK, NEW fs \in SUBSET Families, family' = End(fs), marker' = marker
  PROVE  /\ FamiliesOK(family', marker')
         /\ \A f \in Families \ fs : family'[f] = family[f] /\ marker'[f] = marker[f]
<1>1. ASSUME NEW f \in Families
      PROVE  family'[f] = [user |-> family'[f].user, live |-> family'[f].live, fresh |-> family'[f].fresh]
  <2>1. family[f] = [user |-> family[f].user, live |-> family[f].live, fresh |-> family[f].fresh]
    BY DEF FlowOK
  <2>2. family'[f] = family[f] \/ family'[f] = [family[f] EXCEPT !.live = FALSE]
    BY DEF End
  <2>3. CASE family'[f] = family[f]
    BY <2>1, <2>3
  <2>4. CASE family'[f] = [family[f] EXCEPT !.live = FALSE]
    BY <2>1, <2>4, EndedRow
  <2> QED BY <2>2, <2>3, <2>4
<1>2. family' = [f \in Families |-> family'[f]] /\ \A f \in Families \ fs : family'[f] = family[f]
  BY DEF End
<1> QED BY <1>1, <1>2 DEF FamiliesOK, FlowOK

LEMMA SessionStep == ASSUME FlowInv, NEW f \in Families, SessionChanges(f) PROVE FlowInv'
<1>1. UNCHANGED <<outcomes, states, completions, marker>>
  BY DEF SessionChanges
<1>2. CASE family' = End({f}) /\ Touch({f})
  <2>1. /\ FamiliesOK(family', marker')
        /\ \A g \in Families \ {f} : family'[g] = family[g] /\ marker'[g] = marker[g]
    BY <1>1, <1>2, EndsFamilies DEF FlowInv
  <2> QED BY <1>1, <1>2, <2>1, Touches
<1>3. CASE family' = family /\ Touch({f})
  <2>1. FamiliesOK(family', marker')
    BY <1>1, <1>3 DEF FlowInv, FlowOK, FamiliesOK
  <2> QED BY <1>1, <1>3, <2>1, Touches
<1>4. CASE family' = [family EXCEPT ![f].fresh = FALSE] /\ cb' = cb
  <2>1. /\ family' = [g \in Families |-> family'[g]]
        /\ family'[f] = [family[f] EXCEPT !.fresh = FALSE]
        /\ \A g \in Families \ {f} : family'[g] = family[g]
    BY <1>4 DEF FlowInv, FlowOK
  <2>2. family[f] = [user |-> family[f].user, live |-> family[f].live, fresh |-> family[f].fresh]
    BY DEF FlowInv, FlowOK
  <2>3. family'[f] = [user |-> family[f].user, live |-> family[f].live, fresh |-> FALSE]
    BY <2>1, <2>2
  <2>4. family'[f] = [user |-> family'[f].user, live |-> family'[f].live, fresh |-> family'[f].fresh]
        /\ family'[f].live = family[f].live
    BY <2>3
  <2>5. FamiliesOK(family', marker')
    BY <1>1, <2>1, <2>4 DEF FlowInv, FlowOK, FamiliesOK
  <2>6. /\ cb' = [h \in Callbacks |-> cb'[h]] /\ \A h \in Callbacks : Disturbed(h)
    BY <1>4 DEF FlowInv, FlowOK, Disturbed
  <2>7. ASSUME NEW h \in Callbacks, cb[h].at = "watching"
        PROVE  family[cb[h].rec.fam].live => family'[cb[h].rec.fam].live
    <3>1. cb[h].rec.fam \in Families
      BY <2>7 DEF FlowInv, FlowOK, CallbackOK, CallbackRow
    <3> QED BY <2>1, <2>4, <3>1
  <2>8. states' = [s \in States |-> states'[s]] /\ \A s \in States : states'[s] \in {states[s], Used}
    BY <1>1 DEF FlowInv, FlowOK
  <2>9. \A h \in Callbacks : OnTrip(h) /\ StaysRead(h)
    BY <1>1, <1>4, <2>6, <2>7, DisturbedFacts DEF FlowInv, FlowOK, StaysRead
  <2> QED BY <1>1, <2>5, <2>6, <2>8, <2>9, GoOn
<1> QED BY <1>2, <1>3, <1>4 DEF SessionChanges

LEMMA MarkerStep == ASSUME FlowInv, NEW f \in Families, MarkerExpires(f) PROVE FlowInv'
<1>1. UNCHANGED <<outcomes, states, completions, family>> /\ Touch({f}) /\ marker' = [marker EXCEPT ![f] = 0]
  BY DEF MarkerExpires
<1>2. FamiliesOK(family', marker') /\ \A g \in Families \ {f} : family'[g] = family[g] /\ marker'[g] = marker[g]
  BY <1>1 DEF FlowInv, FlowOK, FamiliesOK
<1> QED BY <1>1, <1>2, Touches

LEMMA Revokes == ASSUME FlowInv, NEW u, revoke_user_auth_state(u) PROVE FlowInv'
<1> DEFINE fs == {f \in Families : family[f].user = u}
<1>1. UNCHANGED <<outcomes, states, completions, marker>> /\ Touch(fs) /\ family' = End(fs)
  BY DEF revoke_user_auth_state
<1>2. fs \in SUBSET Families
  OBVIOUS
<1> HIDE DEF fs
<1>3. FamiliesOK(family', marker') /\ \A g \in Families \ fs : family'[g] = family[g] /\ marker'[g] = marker[g]
  BY <1>1, <1>2, EndsFamilies DEF FlowInv
<1> QED BY <1>1, <1>2, <1>3, Touches

-----------------------------------------------------------------------------
(* The steps of a callback. *)

MovesRow(c, d, a, x) ==
    \/ d = [c EXCEPT !.at = a] \/ d = [c EXCEPT !.at = a, !.row = x]
    \/ d = [c EXCEPT !.at = a, !.id = x] \/ d = [c EXCEPT !.at = a, !.user = x]
    \/ d = [c EXCEPT !.at = a, !.tries = x]
LEMMA RowGoes ==
  ASSUME NEW c, NEW a, NEW x, CallbackRow(c), c.at # "idle", a # "idle",
         a \in {"link", "reauth", "authorizing", "watching"} => c.rec.fam \in Families,
         NEW d, MovesRow(c, d, a, x)
  PROVE  CallbackRow(d) /\ d.at = a /\ d.state = c.state /\ d.rec = c.rec
<1>1. Shaped(c)
  BY DEF CallbackRow
<1>2. Shaped(d) /\ d.at = a /\ d.state = c.state /\ d.rec = c.rec
  <2>1. CASE d = [c EXCEPT !.at = a]
    BY <1>1, <2>1 DEF Shaped
  <2>2. CASE d = [c EXCEPT !.at = a, !.row = x]
    BY <1>1, <2>2 DEF Shaped
  <2>3. CASE d = [c EXCEPT !.at = a, !.id = x]
    BY <1>1, <2>3 DEF Shaped
  <2>4. CASE d = [c EXCEPT !.at = a, !.user = x]
    BY <1>1, <2>4 DEF Shaped
  <2>5. CASE d = [c EXCEPT !.at = a, !.tries = x]
    BY <1>1, <2>5 DEF Shaped
  <2> QED BY <2>1, <2>2, <2>3, <2>4, <2>5 DEF MovesRow
<1> QED BY <1>2 DEF CallbackRow

LEMMA IdleRow == CallbackRow(Idle) /\ Idle.at = "idle"
BY DEF CallbackRow, Shaped, Idle

\* A callback goes on or ends, by itself.
LEMMA Moves ==
  ASSUME FlowInv, NEW h \in Callbacks, Busy(h), NEW d, CallbackRow(d), Goes(h, d),
         d.at # "idle" => d.state = cb[h].state,
         UNCHANGED <<outcomes, states, completions, family, marker>>,
         d.at # "watching"
  PROVE  FlowInv'
<1>1. /\ cb' = [i \in Callbacks |-> cb'[i]] /\ cb'[h] = d
      /\ \A i \in Callbacks \ {h} : cb'[i] = cb[i]
  BY DEF Goes, FlowInv, FlowOK
<1>2. ASSUME NEW i \in Callbacks PROVE OnTrip(i) /\ StaysRead(i)
  <2>1. CASE i = h
    BY <1>1, <2>1 DEF OnTrip, StaysRead, CallbackOK, Busy
  <2>2. CASE i # h
    BY <1>1, <2>2 DEF OnTrip, StaysRead, CallbackOK, Busy, FlowInv, FlowOK
  <2> QED BY <2>1, <2>2
<1>3. FamiliesOK(family', marker') /\ states' = [s \in States |-> states'[s]]
      /\ \A s \in States : states'[s] \in {states[s], Used}
  BY DEF FlowInv, FlowOK, FamiliesOK
<1> QED BY <1>1, <1>2, <1>3, GoOn

LEMMA Goes1 ==
  ASSUME FlowInv, NEW h \in Callbacks, Busy(h), NEW a, NEW x, a \notin {"idle", "watching"},
         a \in {"link", "reauth", "authorizing"} => cb[h].rec.fam \in Families,
         NEW d, d = Idle \/ MovesRow(cb[h], d, a, x),
         Goes(h, d), UNCHANGED <<outcomes, states, completions, family, marker>>
  PROVE  FlowInv'
<1>1. CallbackRow(cb[h]) /\ cb[h].at # "idle"
  BY DEF FlowInv, FlowOK, CallbackOK, Busy
<1>2. CASE d = Idle
  BY <1>2, IdleRow, Moves
<1>3. CASE MovesRow(cb[h], d, a, x)
  <2>1. a # "idle" /\ (a \in {"link", "reauth", "authorizing", "watching"} => cb[h].rec.fam \in Families)
    OBVIOUS
  <2>2. CallbackRow(d) /\ d.at = a /\ d.state = cb[h].state
    BY <1>1, <1>3, <2>1, RowGoes
  <2> QED BY <2>2, Moves
<1> QED BY <1>2, <1>3

LEMMA Consumes ==
  ASSUME FlowInv, NEW h \in Callbacks, NEW p, NEW s \in States, consume_state(h, p, s) PROVE FlowInv'
<1> PICK d : d = [Idle EXCEPT !.at = "consumed", !.proc = p, !.state = s, !.rec = states[s]]
  OBVIOUS
<1>1. /\ cb[h].at = "idle" /\ states[s] \notin {Unused, Used} /\ states' = [states EXCEPT ![s] = Used]
      /\ cb' = [cb EXCEPT ![h] = d] /\ UNCHANGED <<outcomes, completions, family, marker>>
  BY DEF consume_state, Goes
<1>2. TripRecord(states[s])
  BY <1>1 DEF FlowInv, FlowOK
<1>3. Shaped(d) /\ d.at = "consumed" /\ d.state = s /\ d.rec = states[s]
  <2>1. d.at = "consumed" /\ d.state = s /\ d.rec = states[s]
    BY DEF Idle
  <2>2. Shaped(d)
    BY DEF Idle, Shaped
  <2> QED BY <2>1, <2>2
<1>4. CallbackRow(d)
  BY <1>2, <1>3 DEF CallbackRow
<1>5. /\ cb' = [i \in Callbacks |-> cb'[i]] /\ cb'[h] = d
      /\ \A i \in Callbacks \ {h} : cb'[i] = cb[i]
  BY <1>1 DEF FlowInv, FlowOK
<1>6. /\ states' = [t \in States |-> states'[t]] /\ states'[s] = Used
      /\ \A t \in States \ {s} : states'[t] = states[t]
  BY <1>1 DEF FlowInv, FlowOK
<1>7. FlowOK'
  BY <1>1, <1>4, <1>5, <1>6 DEF FlowInv, FlowOK, CallbackOK
<1>8. ASSUME NEW t \in States PROVE Trip(t)'
  <2>1. Trip(t) /\ Trip(s)
    BY DEF FlowInv, TripInv
  <2>2. CASE t = s
    <3>1. outcomes[s] = 0 /\ \A i \in Callbacks : Busy(i) => cb[i].state # s
      BY <1>1, <2>1 DEF Trip
    <3>2. \A i \in Callbacks \ {h} : Busy(i)' => cb'[i].state # s
      BY <1>5, <3>1 DEF Busy
    <3> QED BY <1>1, <1>6, <2>2, <3>1, <3>2 DEF Trip
  <2>3. CASE t # s
    <3>1. \A i \in Callbacks : Busy(i)' /\ cb'[i].state = t => i # h /\ Busy(i) /\ cb[i].state = t
      BY <1>3, <1>5, <2>3 DEF Busy
    <3> QED BY <1>1, <1>6, <2>1, <2>3, <3>1 DEF Trip
  <2> QED BY <2>2, <2>3
<1>9. ASSUME NEW i \in Callbacks PROVE Stands(i)'
  <2>1. CASE i = h
    BY <1>3, <1>5, <2>1 DEF Stands
  <2>2. CASE i # h
    BY <1>1, <1>5, <2>2 DEF Stands, FlowInv
  <2> QED BY <2>1, <2>2
<1> QED BY <1>7, <1>8, <1>9 DEF FlowInv, TripInv

LEMMA RecordOf ==
  ASSUME FlowInv, NEW h \in Callbacks, Busy(h)
  PROVE  TripRecord(cb[h].rec) /\ cb[h].state \in States /\ CallbackRow(cb[h])
         /\ (cb[h].at \in {"link", "reauth", "authorizing", "watching"} => cb[h].rec.fam \in Families)
BY DEF FlowInv, FlowOK, CallbackOK, CallbackRow, Busy

\* The steps that lead to no outcome and begin no transaction.
LEMMA HandlerStep ==
  ASSUME FlowInv, NEW h \in Callbacks,
         \/ _resolve_for_record(h) \/ handle_callback(h) \/ exchange_code(h) \/ _resolve_user(h)
         \/ create_consumer_user_from_external_account(h) \/ LookAtHolder(h)
  PROVE  FlowInv'
<1>1. UNCHANGED <<outcomes, states, completions, family, marker>>
  BY DEF _resolve_for_record, handle_callback, exchange_code, _resolve_user,
         create_consumer_user_from_external_account, LookAtHolder, OnlyCallback
<1>2. Busy(h)
  BY DEF _resolve_for_record, handle_callback, exchange_code, _resolve_user,
         create_consumer_user_from_external_account, LookAtHolder, Busy
<1>3. CASE _resolve_for_record(h)
  <2>1. PICK r : r = Cached(cb[h].proc, <<"ids", cb[h].rec.conn, cb[h].rec.bind>>)
    OBVIOUS
  <2>2. PICK d : (d = Idle \/ MovesRow(cb[h], d, "resolved", r)) /\ Goes(h, d)
    <3>1. Goes(h, IF Available(r) THEN [[cb[h] EXCEPT !.row = r] EXCEPT !.at = "resolved"] ELSE Idle)
      BY <1>3, <2>1 DEF _resolve_for_record
    <3>2. CallbackRow(cb[h])
      BY <1>2, RecordOf
    <3>3. [[cb[h] EXCEPT !.row = r] EXCEPT !.at = "resolved"] = [cb[h] EXCEPT !.at = "resolved", !.row = r]
      BY <3>2 DEF CallbackRow, Shaped
    <3> QED BY <3>1, <3>3 DEF MovesRow
  <2> QED BY <1>1, <1>2, <2>2, Goes1
<1>4. CASE handle_callback(h)
  <2>1. PICK d : (d = Idle \/ MovesRow(cb[h], d, "exchanging", None)) /\ Goes(h, d)
    BY <1>4 DEF handle_callback, Ends, MovesRow
  <2> QED BY <1>1, <1>2, <2>1, Goes1
<1>5. CASE exchange_code(h)
  <2>1. PICK a : a = cb[h].rec.purpose
    OBVIOUS
  <2>2. PICK x, d : (d = Idle \/ MovesRow(cb[h], d, a, x)) /\ Goes(h, d)
    BY <1>5, <2>1 DEF exchange_code, Ends, MovesRow
  <2>3. a \notin {"idle", "watching"} /\ (a \in {"link", "reauth", "authorizing"} => cb[h].rec.fam \in Families)
    BY <1>2, <2>1, RecordOf DEF TripRecord
  <2> QED BY <1>1, <1>2, <2>2, <2>3, Goes1
<1>6. CASE _resolve_user(h)
  <2>1. PICK a, x, d : a \in {"issuing", "creating"} /\ (d = Idle \/ MovesRow(cb[h], d, a, x)) /\ Goes(h, d)
    <3>1. PICK u : u = holder[cb[h].id]
      OBVIOUS
    <3>2. \/ Goes(h, [cb[h] EXCEPT !.at = "issuing", !.user = u])
          \/ Goes(h, [cb[h] EXCEPT !.at = "creating"]) \/ Goes(h, Idle)
      BY <1>6, <3>1 DEF _resolve_user, Ends
    <3> QED BY <3>2 DEF MovesRow
  <2>2. a \notin {"idle", "watching"} /\ a \notin {"link", "reauth", "authorizing"}
    BY <2>1
  <2> QED BY <1>1, <1>2, <2>1, <2>2, Goes1
<1>7. CASE create_consumer_user_from_external_account(h)
  <2>1. PICK x, d : (d = Idle \/ MovesRow(cb[h], d, "issuing", x)) /\ Goes(h, d)
    BY <1>7 DEF create_consumer_user_from_external_account, Ends, MovesRow
  <2> QED BY <1>1, <1>2, <2>1, Goes1
<1>8. CASE LookAtHolder(h)
  <2>1. PICK d : (d = Idle \/ MovesRow(cb[h], d, "authorizing", None)) /\ Goes(h, d)
    BY <1>8 DEF LookAtHolder, Ends, MovesRow
  <2>2. cb[h].rec.fam \in Families
    BY <1>2, <1>8, RecordOf DEF LookAtHolder
  <2> QED BY <1>1, <1>2, <2>1, <2>2, Goes1
<1> QED BY <1>3, <1>4, <1>5, <1>6, <1>7, <1>8

\* The transaction begins with what it reads.
LEMMA ReadsStand ==
  ASSUME NEW h, SessionStands(h)
  PROVE  /\ cb[h].state \in completions /\ family[cb[h].rec.fam].live
         /\ cb[h].rec.purpose = "link" /\ cb[h].rec.proof[1] = "marker"
               => cb[h].rec.proof[2] = marker[cb[h].rec.fam]
<1>1. cb[h].rec.purpose = "link" => cb[h].rec.proof \in {<<"token">>, <<"marker", marker[cb[h].rec.fam]>>}
  BY DEF SessionStands, resolve_recent_authentication_proof
<1>2. <<"token">>[1] # "marker"
  OBVIOUS
<1>3. <<"marker", marker[cb[h].rec.fam]>>[2] = marker[cb[h].rec.fam]
  OBVIOUS
<1> QED BY <1>1, <1>2, <1>3 DEF SessionStands

LEMMA Watches == ASSUME FlowInv, NEW h \in Callbacks, WatchSession(h) PROVE FlowInv'
<1> PICK d : d = [cb[h] EXCEPT !.at = "watching", !.dirty = FALSE]
  OBVIOUS
<1>1. UNCHANGED <<outcomes, states, completions, family, marker>> /\ Busy(h)
  BY DEF WatchSession, OnlyCallback, Busy
<1>2. CallbackRow(cb[h]) /\ cb[h].rec.fam \in Families
  BY <1>1, RecordOf DEF WatchSession
<1>3. Shaped(d) /\ d.at = "watching" /\ d.state = cb[h].state /\ d.rec = cb[h].rec
  BY <1>2 DEF CallbackRow, Shaped
<1>4. CallbackRow(d)
  BY <1>1, <1>2, <1>3, RecordOf DEF CallbackRow
<1>5. CASE ~SessionStands(h)
  BY <1>1, <1>5, IdleRow, Moves DEF WatchSession
<1>6. CASE SessionStands(h)
  <2>1. cb' = [cb EXCEPT ![h] = d]
    BY <1>6 DEF WatchSession, Goes
  <2>2. /\ cb' = [i \in Callbacks |-> cb'[i]] /\ cb'[h] = d
        /\ \A i \in Callbacks \ {h} : cb'[i] = cb[i]
    BY <2>1 DEF FlowInv, FlowOK
  <2>3. ASSUME NEW i \in Callbacks PROVE OnTrip(i)
    <3>1. CASE i = h
      BY <1>1, <1>3, <1>4, <2>2, <3>1 DEF OnTrip, CallbackOK, Busy
    <3>2. CASE i # h
      BY <2>2, <3>2 DEF OnTrip, CallbackOK, Busy, FlowInv, FlowOK
    <3> QED BY <3>1, <3>2
  <2>4. ASSUME NEW i \in Callbacks PROVE Stands(i)'
    <3>1. CASE i = h
      <4>1. /\ cb[h].state \in completions /\ family[cb[h].rec.fam].live
            /\ cb[h].rec.purpose = "link" /\ cb[h].rec.proof[1] = "marker"
                  => cb[h].rec.proof[2] = marker[cb[h].rec.fam]
        BY <1>6, ReadsStand
      <4>2. cb'[h].state = cb[h].state /\ cb'[h].rec = cb[h].rec
        BY <1>3, <2>2
      <4> QED BY <1>1, <3>1, <4>1, <4>2 DEF Stands
    <3>2. CASE i # h
      BY <1>1, <2>2, <3>2 DEF Stands, FlowInv
    <3> QED BY <3>1, <3>2
  <2>5. TripInv'
    BY <1>1, <2>3, TripsKept DEF FlowInv
  <2>6. FlowOK'
    BY <1>1, <2>2, <2>3 DEF FlowInv, FlowOK, OnTrip
  <2> QED BY <2>4, <2>5, <2>6 DEF FlowInv
<1> QED BY <1>5, <1>6

\* A callback ends with an outcome, the only one its state is worth.
LEMMA WorthOne ==
  ASSUME FlowInv, NEW h \in Callbacks, Busy(h), outcomes' = [outcomes EXCEPT ![cb[h].state] = @ + 1],
         states' = states, cb'[h] = Idle, \A i \in Callbacks \ {h} : OnTrip(i)
  PROVE  TripInv' /\ outcomes' \in [States -> Nat]
<1> PICK s : s = cb[h].state
  OBVIOUS
<1>1. s \in States /\ Trip(s)
  BY RecordOf DEF FlowInv, TripInv
<1>2. /\ outcomes[s] = 0 /\ states[s] = Used
      /\ \A i \in Callbacks \ {h} : Busy(i) => cb[i].state # s
  BY <1>1 DEF Trip
<1>3. outcomes' \in [States -> Nat] /\ outcomes'[s] = 1 /\ \A t \in States \ {s} : outcomes'[t] = outcomes[t]
  BY <1>1, <1>2 DEF FlowInv, FlowOK
<1>4. ~Busy(h)'
  BY IdleRow DEF Busy
<1>5. ASSUME NEW i \in Callbacks, Busy(i)'
      PROVE  i # h /\ Busy(i) /\ cb'[i].state = cb[i].state /\ cb'[i].state # s
  BY <1>2, <1>4, <1>5 DEF OnTrip
<1>6. ASSUME NEW t \in States PROVE Trip(t)'
  <2>1. CASE t = s
    BY <1>2, <1>3, <1>5, <2>1 DEF Trip
  <2>2. CASE t # s
    <3>1. Trip(t)
      BY DEF FlowInv, TripInv
    <3> QED BY <1>3, <1>5, <2>2, <3>1 DEF Trip
  <2> QED BY <2>1, <2>2
<1> QED BY <1>3, <1>6 DEF TripInv

LEMMA Alone ==
  ASSUME FlowInv, NEW h \in Callbacks, Busy(h), NEW i \in Callbacks, i # h, Busy(i)
  PROVE  cb[i].state # cb[h].state
BY RecordOf DEF FlowInv, TripInv, Trip

LEMMA Authorizes == ASSUME FlowInv, NEW h \in Callbacks, authorize_oauth_session(h) PROVE FlowInv'
<1>1. Busy(h) /\ UNCHANGED <<family, states>> /\ cb[h].at = "watching"
  BY DEF authorize_oauth_session, Busy
<1>2. CallbackRow(cb[h]) /\ cb[h].rec.fam \in Families /\ cb[h].state \in States
  BY <1>1, RecordOf
<1>3. CASE cb[h].dirty
  <2>1. UNCHANGED <<marker, completions, outcomes>>
    BY <1>3 DEF authorize_oauth_session
  <2>2. PICK d : (d = Idle \/ MovesRow(cb[h], d, "authorizing", cb[h].tries + 1)) /\ Goes(h, d)
    BY <1>3 DEF authorize_oauth_session, MovesRow
  <2> QED BY <1>1, <1>2, <2>1, <2>2, Goes1
<1>4. CASE ~cb[h].dirty /\ cb[h].rec.purpose = "link"
  <2>1. UNCHANGED <<marker, outcomes>> /\ completions' = completions \ {cb[h].state}
    BY <1>4 DEF authorize_oauth_session
  <2>2. PICK d : MovesRow(cb[h], d, "linking", None) /\ cb' = [cb EXCEPT ![h] = d]
    BY <1>4 DEF authorize_oauth_session, MovesRow, Goes
  <2>3. CallbackRow(d) /\ d.at = "linking" /\ d.state = cb[h].state
    BY <1>1, <1>2, <2>2, RowGoes
  <2>4. /\ cb' = [i \in Callbacks |-> cb'[i]] /\ cb'[h] = d
        /\ \A i \in Callbacks \ {h} : cb'[i] = cb[i]
    BY <2>2 DEF FlowInv, FlowOK
  <2>5. ASSUME NEW i \in Callbacks PROVE OnTrip(i) /\ StaysRead(i)
    <3>1. CASE i = h
      BY <1>1, <2>3, <2>4, <3>1 DEF OnTrip, StaysRead, CallbackOK, Busy
    <3>2. CASE i # h
      <4>1. OnTrip(i)
        BY <2>4, <3>2 DEF OnTrip, CallbackOK, Busy, FlowInv, FlowOK
      <4>2. cb[i].at = "watching" => cb[i].state # cb[h].state
        BY <1>1, <3>2, Alone DEF Busy
      <4>3. StaysRead(i)
        BY <1>1, <2>1, <2>4, <3>2, <4>2 DEF StaysRead
      <4> QED BY <4>1, <4>3
    <3> QED BY <3>1, <3>2
  <2>6. FamiliesOK(family', marker') /\ states' = [s \in States |-> states'[s]]
        /\ \A s \in States : states'[s] \in {states[s], Used}
    BY <1>1, <2>1 DEF FlowInv, FlowOK, FamiliesOK
  <2> QED BY <2>1, <2>4, <2>5, <2>6, GoOn
<1>5. CASE ~cb[h].dirty /\ cb[h].rec.purpose # "link"
  <2> PICK f : f = cb[h].rec.fam
    OBVIOUS
  <2>1. /\ completions' = completions \ {cb[h].state}
        /\ marker' = [marker EXCEPT ![f] = marks + 1]
        /\ outcomes' = [outcomes EXCEPT ![cb[h].state] = @ + 1]
        /\ cb' = [i \in Callbacks |-> IF i = h THEN Idle
                      ELSE IF cb[i].at = "watching" /\ cb[i].rec.fam = f
                      THEN [cb[i] EXCEPT !.dirty = TRUE] ELSE cb[i]]
    BY <1>5 DEF authorize_oauth_session
  <2>2. /\ cb' = [i \in Callbacks |-> cb'[i]] /\ cb'[h] = Idle
        /\ \A i \in Callbacks \ {h} : Disturbed(i)
    BY <2>1 DEF Disturbed
  <2>3. ASSUME NEW i \in Callbacks, i # h
        PROVE  OnTrip(i) /\ cb'[i].at = cb[i].at /\ cb'[i].state = cb[i].state /\ cb'[i].rec = cb[i].rec
               /\ (cb'[i] = cb[i] \/ cb'[i].dirty) /\ CallbackRow(cb[i])
    BY <2>2, <2>3, DisturbedFacts DEF FlowInv, FlowOK, CallbackOK
  <2>4. ASSUME NEW i \in Callbacks, i # h, cb'[i].at = "watching", ~cb'[i].dirty
        PROVE  cb[i].rec.fam # f /\ cb[i].state # cb[h].state /\ cb'[i] = cb[i]
    <3>1. cb'[i] = cb[i] /\ cb[i].at = "watching"
      BY <2>3, <2>4
    <3>2. [cb[i] EXCEPT !.dirty = TRUE].dirty = TRUE
      BY <2>3, <2>4 DEF CallbackRow, Shaped
    <3>3. cb[i].rec.fam # f
      BY <2>1, <2>4, <3>1, <3>2
    <3>4. cb[i].state # cb[h].state
      BY <1>1, <2>4, <3>1, Alone DEF Busy
    <3> QED BY <3>1, <3>3, <3>4
  <2>5. CallbackOK(h)' /\ cb'[h].at = "idle"
    BY <2>2, IdleRow DEF CallbackOK
  <2>6. ASSUME NEW i \in Callbacks PROVE Stands(i)'
    <3>1. CASE i = h
      BY <2>5, <3>1 DEF Stands
    <3>2. CASE i # h
      <4>1. marker'[cb[i].rec.fam] = marker[cb[i].rec.fam] \/ cb[i].rec.fam = f \/ cb[i].at # "watching"
        <5>1. cb[i].at = "watching" => cb[i].rec.fam \in Families
          BY <2>3, <3>2 DEF CallbackRow
        <5> QED BY <2>1, <5>1 DEF FlowInv, FlowOK
      <4>2. StaysRead(i)
        BY <1>1, <2>1, <2>4, <3>2, <4>1 DEF StaysRead
      <4> QED BY <4>2, StillStands DEF FlowInv
    <3> QED BY <3>1, <3>2
  <2>7. TripInv' /\ outcomes' \in [States -> Nat]
    BY <1>1, <2>1, <2>2, <2>3, WorthOne
  <2>8. marker' = [g \in Families |-> marker'[g]]
    BY <2>1 DEF FlowInv, FlowOK
  <2>9. FlowOK'
    BY <1>1, <2>2, <2>3, <2>5, <2>7, <2>8 DEF FlowInv, FlowOK, OnTrip
  <2> QED BY <2>6, <2>7, <2>9 DEF FlowInv
<1> QED BY <1>3, <1>4, <1>5

LEMMA Completes == ASSUME FlowInv, NEW h \in Callbacks, _complete_login(h) \/ _complete_link(h) PROVE FlowInv'
<1>1. Busy(h) /\ UNCHANGED <<states, completions, marker>> /\ cb' = [cb EXCEPT ![h] = Idle]
  BY DEF _complete_login, _complete_link, Busy, Ends, Goes
<1>2. /\ cb' = [i \in Callbacks |-> cb'[i]] /\ cb'[h] = Idle
      /\ \A i \in Callbacks \ {h} : cb'[i] = cb[i]
  BY <1>1 DEF FlowInv, FlowOK
<1>3. \/ UNCHANGED <<family, outcomes>>
      \/ /\ outcomes' = [outcomes EXCEPT ![cb[h].state] = @ + 1]
         /\ \/ family' = family
            \/ \E f \in Families : \E u : family' = [family EXCEPT ![f] = [user |-> u, live |-> TRUE, fresh |-> TRUE]]
  <2>1. CASE _complete_login(h)
    BY <2>1 DEF _complete_login
  <2>2. CASE _complete_link(h)
    BY <2>2 DEF _complete_link
  <2> QED BY <2>1, <2>2
<1>4. FamiliesOK(family', marker') /\ \A f \in Families : family[f].live => family'[f].live
  <2>1. CASE family' = family
    BY <1>1, <2>1 DEF FlowInv, FlowOK, FamiliesOK
  <2>2. ASSUME NEW f \in Families, NEW u, family' = [family EXCEPT ![f] = [user |-> u, live |-> TRUE, fresh |-> TRUE]]
        PROVE  FamiliesOK(family', marker') /\ \A g \in Families : family[g].live => family'[g].live
    <3>1. /\ family' = [g \in Families |-> family'[g]]
          /\ family'[f] = [user |-> u, live |-> TRUE, fresh |-> TRUE]
          /\ \A g \in Families \ {f} : family'[g] = family[g]
      BY <2>2 DEF FlowInv, FlowOK
    <3>2. /\ family'[f] = [user |-> family'[f].user, live |-> family'[f].live, fresh |-> family'[f].fresh]
          /\ family'[f].live
      BY <3>1
    <3> QED BY <1>1, <3>1, <3>2 DEF FlowInv, FlowOK, FamiliesOK
  <2> QED BY <1>3, <2>1, <2>2
<1>5. ASSUME NEW i \in Callbacks PROVE OnTrip(i) /\ StaysRead(i)
  <2>1. CASE i = h
    BY <1>2, <2>1, IdleRow DEF OnTrip, StaysRead, CallbackOK, Busy
  <2>2. CASE i # h
    <3>1. OnTrip(i)
      BY <1>2, <2>2 DEF OnTrip, CallbackOK, Busy, FlowInv, FlowOK
    <3>2. cb[i].at = "watching" => cb[i].rec.fam \in Families
      BY DEF FlowInv, FlowOK, CallbackOK, CallbackRow
    <3>3. StaysRead(i)
      BY <1>1, <1>2, <1>4, <2>2, <3>2 DEF StaysRead
    <3> QED BY <3>1, <3>3
  <2> QED BY <2>1, <2>2
<1>6. states' = [s \in States |-> states'[s]] /\ \A s \in States : states'[s] \in {states[s], Used}
  BY <1>1 DEF FlowInv, FlowOK
<1>7. CASE UNCHANGED outcomes
  BY <1>2, <1>4, <1>5, <1>6, <1>7, GoOn
<1>8. CASE outcomes' = [outcomes EXCEPT ![cb[h].state] = @ + 1]
  <2>1. TripInv' /\ outcomes' \in [States -> Nat]
    BY <1>1, <1>2, <1>5, <1>8, WorthOne
  <2>2. FlowOK'
    BY <1>1, <1>2, <1>4, <1>5, <2>1 DEF FlowInv, FlowOK, OnTrip, FamiliesOK
  <2> QED BY <1>5, <2>1, <2>2, StillStands DEF FlowInv
<1> QED BY <1>3, <1>7, <1>8

LEMMA CallbackStep == ASSUME FlowInv, NEW h \in Callbacks, Callback(h) PROVE FlowInv'
BY HandlerStep, Watches, Authorizes, Completes DEF Callback

\* The steps of the flow read the configuration; they write no table of it.
LEMMA FlowReads ==
  ASSUME ConfigInv, FlowNext, ~(ConfigNext(named) /\ UNCHANGED flowVars) PROVE ConfigInv'
<1>1. ASSUME UNCHANGED configVars PROVE ConfigInv'
  BY <1>1, ConfigStays
<1>2. ASSUME NEW p, NEW x, Remember(p, x), UNCHANGED <<catalog, conns, binds, allowed, up, writer>>
      PROVE  ConfigInv'
  BY <1>2, Reads
<1>3. ASSUME NEW p \in Processes, NEW k, NEW t, oauth_init(p, k, t) PROVE ConfigInv'
  BY <1>2, <1>3 DEF oauth_init
<1>4. ASSUME NEW p \in Processes, NEW t, NEW s, start_from_init_token(p, t, s) PROVE ConfigInv'
  <2>1. PICK x : Remember(p, x)
    BY <1>4 DEF start_from_init_token
  <2>2. UNCHANGED <<catalog, conns, binds, allowed, up, writer>>
    BY <1>4 DEF start_from_init_token
  <2> QED BY <1>2, <2>1, <2>2
<1>5. ASSUME NEW p \in Processes, NEW f, NEW k, NEW s, NEW q, start_session_round_trip(p, f, k, s, q)
      PROVE  ConfigInv'
  BY <1>2, <1>5 DEF start_session_round_trip
<1>6. ASSUME NEW p \in Processes, NEW f, NEW k, unlink(p, f, k) PROVE ConfigInv'
  BY <1>2, <1>6 DEF unlink
<1>7. ASSUME NEW h \in Callbacks, Callback(h) PROVE ConfigInv'
  <2>1. CASE _resolve_for_record(h)
    <3>1. PICK x : Remember(cb[h].proc, x)
      BY <2>1 DEF _resolve_for_record
    <3>2. UNCHANGED <<catalog, conns, binds, allowed, up, writer>>
      BY <2>1 DEF _resolve_for_record
    <3> QED BY <1>2, <3>1, <3>2
  <2>2. CASE ~_resolve_for_record(h)
    BY <1>1, <1>7, <2>2
       DEF Callback, handle_callback, exchange_code, _resolve_user, create_consumer_user_from_external_account,
           _complete_login, LookAtHolder, WatchSession, authorize_oauth_session, _complete_link, OnlyCallback
  <2> QED BY <2>1, <2>2
<1>8. ASSUME NEW s, DeadlinePasses(s) \/ \E h, p : consume_state(h, p, s) PROVE ConfigInv'
  BY <1>1, <1>8 DEF DeadlinePasses, consume_state
<1>9. ASSUME NEW f, SessionChanges(f) \/ MarkerExpires(f) PROVE ConfigInv'
  BY <1>1, <1>9 DEF SessionChanges, MarkerExpires
<1>10. ASSUME NEW u, revoke_user_auth_state(u) \/ UserRoutes(u) PROVE ConfigInv'
  BY <1>1, <1>10 DEF revoke_user_auth_state, UserRoutes, UserChanges
<1> QED BY <1>3, <1>4, <1>5, <1>6, <1>7, <1>8, <1>9, <1>10 DEF FlowNext

LEMMA FlowSteps == ASSUME FlowInv, FlowNext PROVE FlowInv'
<1>1. ASSUME NEW p, NEW k, NEW t, oauth_init(p, k, t) PROVE FlowInv'
  BY <1>1, StatesStay DEF oauth_init
<1>2. ASSUME NEW f \in Families, NEW p, NEW k, unlink(p, f, k) PROVE FlowInv'
  BY <1>2, StatesStay DEF unlink
<1>3. ASSUME NEW u, UserRoutes(u) PROVE FlowInv'
  BY <1>3, StatesStay DEF UserRoutes, UserChanges
<1>4. CASE UNCHANGED flowVars
  BY <1>4, StatesStay DEF flowVars
<1> QED BY <1>1, <1>2, <1>3, <1>4, StartsLogin, StartsOfSession, Deadline, Consumes, CallbackStep, SessionStep,
           MarkerStep, Revokes DEF FlowNext

-----------------------------------------------------------------------------

LEMMA OAuthInvariance == OAuthSpec => [](ConfigInv /\ FlowInv)
<1>1. ConfigInit /\ FlowInit => ConfigInv /\ FlowInv
  BY ConfigInitInv, FlowInitInv
<1>2. ConfigInv /\ FlowInv /\ [FlowNext]_<<configVars, flowVars>> => (ConfigInv /\ FlowInv)'
  <2> SUFFICES ASSUME ConfigInv, FlowInv, [FlowNext]_<<configVars, flowVars>> PROVE ConfigInv' /\ FlowInv'
    OBVIOUS
  <2>1. CASE UNCHANGED <<configVars, flowVars>>
    BY <2>1, ConfigStays, StatesStay DEF flowVars
  <2>2. CASE FlowNext
    BY <2>2, FlowReads, ConfigStep, FlowSteps
  <2> QED BY <2>1, <2>2
<1> QED BY <1>1, <1>2, PTL DEF OAuthSpec

\* However often the callback of a round trip is delivered, and to whichever
\* processes, it leads to one session, link or marker: consume_state takes the
\* record away, and only who took it goes on.
THEOREM TripsEndOnce == OAuthSpec => []OneOutcome
<1>1. FlowInv => OneOutcome
  BY DEF FlowInv, TripInv, Trip, OneOutcome
<1> QED BY <1>1, OAuthInvariance, PTL

\* A link or reauthentication goes through (EXEC) only in the session that
\* asked for it: the family lives, the deadline has not passed, and a marker
\* that was its proof is still the one stored.
THEOREM LinksInLiveSession == OAuthSpec => CompletedInLiveSession
<1>1. FlowInv => \A h \in Callbacks :
          cb[h].at = "watching" /\ cb'[h].at \in {"linking", "idle"} /\ ~cb[h].dirty =>
             /\ cb[h].state \in completions
             /\ family[cb[h].rec.fam].live
             /\ cb[h].rec.purpose = "link" /\ cb[h].rec.proof[1] = "marker"
                   => cb[h].rec.proof[2] = marker[cb[h].rec.fam]
  BY DEF FlowInv, Stands
<1> QED BY <1>1, OAuthInvariance, PTL DEF CompletedInLiveSession

\* After an administration call the process that served it holds no copy older
\* than the tables (invalidate_connection_cache), under either kind of key, and
\* can sign in with every provider it offers.
THEOREM AdminSeesItself == OAuthSpec => []OwnChangesSeen
BY OAuthInvariance, ConfigSeen, PTL

-----------------------------------------------------------------------------
(* The shared signing keys. *)

Places == {"idle", "looking", "fetching", "storing", "finding", "decoding"} \cup Outcomes
ClaimedIdentities == {identity_from_claims(t) : t \in Tokens} \cup {NoToken}
Thread == [token : Tokens \cup {NoToken}, at : Places, looks : 0 .. 2, keys : SUBSET Kids,
           id : ClaimedIdentities]

KeysTypeOK ==
    /\ published \in SUBSET Kids /\ entry.keys \in SUBSET Kids
    /\ ver \in [Verifiers -> Thread]
    /\ \A v \in Verifiers : ver[v].at # "idle" => ver[v].token \in Tokens

\* A thread that is not marked has had its key published ever since it began,
\* so each document it fetched itself has the key; a document of the cache is
\* trusted on the first look only.
KeyAt(v) ==
    ver[v].at # "idle" /\ v \notin absent =>
        /\ ver[v].token.kid \in published
        /\ ver[v].at = "storing" => ver[v].token.kid \in ver[v].keys
        /\ ver[v].at = "finding" /\ ver[v].looks = 2 => ver[v].token.kid \in ver[v].keys
        /\ ver[v].at # "no key"
LooksAt(v) ==
    /\ ver[v].at = "looking" => ver[v].looks \in {0, 1}
    /\ ver[v].at \in {"fetching", "storing", "finding"} => ver[v].looks \in {1, 2}

KeysInv == KeysTypeOK /\ \A v \in Verifiers : KeyAt(v) /\ LooksAt(v)

LEMMA InitKeysInv == KeysInit => KeysInv
<1> SUFFICES ASSUME KeysInit PROVE KeysInv
  OBVIOUS
<1>1. Resting \in Thread
  BY DEF Resting, Thread, Places, ClaimedIdentities
<1>2. KeysTypeOK
  BY <1>1 DEF KeysInit, KeysTypeOK, Resting
<1> QED BY <1>2 DEF KeysInit, KeysInv, KeyAt, LooksAt, Resting

LEMMA Rotation == ASSUME KeysInv, NEW keys \in SUBSET Kids, ProviderRotates(keys) PROVE KeysInv'
<1>1. KeysTypeOK'
  BY DEF ProviderRotates, KeysInv, KeysTypeOK
<1>2. ASSUME NEW v \in Verifiers PROVE KeyAt(v)' /\ LooksAt(v)'
  BY TokensAssumption DEF ProviderRotates, KeysInv, KeysTypeOK, KeyAt, LooksAt
<1> QED BY <1>1, <1>2 DEF KeysInv

LEMMA Begins ==
  ASSUME KeysInv, NEW v \in Verifiers, NEW t \in Tokens, validate_jose_header(v, t)
  PROVE  KeysInv'
<1> DEFINE at == IF HeaderFits(t) THEN "looking" ELSE "bad header"
           r == [Resting EXCEPT !.token = t, !.at = at]
<1>1. /\ at \in {"looking", "bad header"}
      /\ ver' = [ver EXCEPT ![v] = r]
      /\ UNCHANGED <<published, entry>>
  BY DEF validate_jose_header
<1> HIDE DEF at
<1>2. Resting \in Thread /\ Resting.looks = 0
  BY DEF Resting, Thread, Places, ClaimedIdentities
<1>3. r \in Thread /\ r.token = t /\ r.at = at /\ r.looks = 0
  BY <1>1, <1>2 DEF Thread, Places, Outcomes
<1> HIDE DEF r
<1>4. absent' = IF t.kid \in published THEN absent \ {v} ELSE absent \cup {v}
  BY DEF validate_jose_header
<1>5. KeysTypeOK'
  BY <1>1, <1>2, <1>3 DEF KeysInv, KeysTypeOK
<1>6. KeyAt(v)' /\ LooksAt(v)'
  BY <1>1, <1>3, <1>4 DEF KeysInv, KeysTypeOK, KeyAt, LooksAt
<1>7. ASSUME NEW w \in Verifiers \ {v} PROVE KeyAt(w)' /\ LooksAt(w)'
  BY <1>1, <1>4, <1>7 DEF KeysInv, KeysTypeOK, KeyAt, LooksAt
<1> QED BY <1>5, <1>6, <1>7 DEF KeysInv

\* A step of one thread that leaves the provider and the marks alone.
LEMMA StepOfThread ==
  ASSUME KeysInv, NEW v \in Verifiers, NEW r \in Thread,
         ver' = [ver EXCEPT ![v] = r], entry'.keys \in SUBSET Kids, UNCHANGED <<published, absent>>,
         r.token = ver[v].token, ver[v].at # "idle",
         r.at = "looking" => r.looks \in {0, 1},
         r.at \in {"fetching", "storing", "finding"} => r.looks \in {1, 2},
         v \notin absent => /\ r.at = "storing" => r.token.kid \in r.keys
                            /\ r.at = "finding" /\ r.looks = 2 => r.token.kid \in r.keys
                            /\ r.at # "no key"
  PROVE  KeysInv'
<1>1. KeysTypeOK'
  BY DEF KeysInv, KeysTypeOK
<1>2. KeyAt(v)' /\ LooksAt(v)'
  BY DEF KeysInv, KeysTypeOK, KeyAt, LooksAt
<1>3. ASSUME NEW w \in Verifiers \ {v} PROVE KeyAt(w)' /\ LooksAt(w)'
  BY <1>3 DEF KeysInv, KeysTypeOK, KeyAt, LooksAt
<1> QED BY <1>1, <1>2, <1>3 DEF KeysInv

LEMMA Looks == ASSUME KeysInv, NEW v \in Verifiers, fetch_jwks(v) PROVE KeysInv'
<1> DEFINE keys == IF Served(v) THEN entry.keys ELSE {}
           at == IF Served(v) THEN "finding" ELSE "fetching"
           r == [ver[v] EXCEPT !.looks = ver[v].looks + 1, !.keys = keys, !.at = at]
<1>1. /\ ver[v].at = "looking" /\ ver' = [ver EXCEPT ![v] = r]
      /\ UNCHANGED <<published, entry, absent>>
  BY DEF fetch_jwks, KeysInv, KeysTypeOK, Thread
<1>2. /\ ver[v].looks \in {0, 1} /\ keys \in SUBSET Kids /\ at \in {"finding", "fetching"}
      /\ at = "finding" => ver[v].looks = 0
  BY <1>1 DEF KeysInv, KeysTypeOK, LooksAt, Served
<1> HIDE DEF keys, at
<1>3. /\ r \in Thread /\ r.token = ver[v].token /\ r.at = at /\ r.looks = ver[v].looks + 1
  <2>1. ver[v] \in Thread /\ ver[v].looks + 1 \in 0 .. 2 /\ at \in Places
    BY <1>2 DEF KeysInv, KeysTypeOK, Places
  <2> QED BY <1>2, <2>1 DEF Thread
<1> HIDE DEF r
<1>4. entry'.keys \in SUBSET Kids
  BY <1>1 DEF KeysInv, KeysTypeOK
<1>5. r.looks \in {1, 2} /\ r.at \in {"finding", "fetching"} /\ (r.at = "finding" => r.looks # 2)
  BY <1>2, <1>3
<1> QED BY <1>1, <1>3, <1>4, <1>5, StepOfThread

LEMMA Fetches == ASSUME KeysInv, NEW v \in Verifiers, guarded_get_json(v) PROVE KeysInv'
<1>1. ver[v].at = "fetching" /\ UNCHANGED <<published, entry, absent>> /\ ver[v].looks \in {1, 2}
  BY DEF guarded_get_json, KeysInv, LooksAt
<1>2. /\ v \notin absent => ver[v].token.kid \in published
      /\ entry'.keys \in SUBSET Kids /\ published \in SUBSET Kids
  BY <1>1 DEF KeysInv, KeyAt, KeysTypeOK
<1>3. CASE ver' = [ver EXCEPT ![v].keys = published, ![v].at = "storing"]
  <2> DEFINE r == [ver[v] EXCEPT !.keys = published, !.at = "storing"]
  <2>1. ver' = [ver EXCEPT ![v] = r]
    BY <1>3 DEF KeysInv, KeysTypeOK, Thread
  <2>2. /\ r \in Thread /\ r.token = ver[v].token /\ r.at = "storing" /\ r.keys = published
        /\ r.looks = ver[v].looks
    BY <1>2 DEF KeysInv, KeysTypeOK, Thread, Places
  <2> HIDE DEF r
  <2> QED BY <1>1, <1>2, <2>1, <2>2, StepOfThread
<1>4. CASE Refuse(v, "keys unavailable")
  <2> DEFINE r == [ver[v] EXCEPT !.at = "keys unavailable"]
  <2>1. ver' = [ver EXCEPT ![v] = r]
    BY <1>4 DEF Refuse, KeysInv, KeysTypeOK, Thread
  <2>2. r \in Thread /\ r.token = ver[v].token /\ r.at = "keys unavailable"
    BY DEF KeysInv, KeysTypeOK, Thread, Places, Outcomes
  <2> HIDE DEF r
  <2> QED BY <1>1, <1>2, <2>1, <2>2, StepOfThread
<1> QED BY <1>3, <1>4 DEF guarded_get_json

LEMMA Stores == ASSUME KeysInv, NEW v \in Verifiers, StoreDocument(v) PROVE KeysInv'
<1> DEFINE r == [ver[v] EXCEPT !.at = "finding"]
<1>1. /\ ver[v].at = "storing" /\ ver' = [ver EXCEPT ![v] = r] /\ UNCHANGED <<published, absent>>
      /\ entry'.keys = ver[v].keys
  BY DEF StoreDocument, KeysInv, KeysTypeOK, Thread
<1>2. ver[v].looks \in {1, 2} /\ (v \notin absent => ver[v].token.kid \in ver[v].keys)
  BY <1>1 DEF KeysInv, LooksAt, KeyAt
<1>3. /\ r \in Thread /\ r.token = ver[v].token /\ r.at = "finding" /\ r.keys = ver[v].keys
      /\ r.looks = ver[v].looks /\ ver[v].keys \in SUBSET Kids
  BY DEF KeysInv, KeysTypeOK, Thread, Places
<1> HIDE DEF r
<1> QED BY <1>1, <1>2, <1>3, StepOfThread

LEMMA Finds == ASSUME KeysInv, NEW v \in Verifiers, _find_key(v) PROVE KeysInv'
<1> DEFINE at == IF ver[v].token.kid \in ver[v].keys THEN "decoding"
                 ELSE IF ver[v].looks = 1 THEN "looking" ELSE "no key"
           r == [ver[v] EXCEPT !.at = at]
<1>1. /\ ver[v].at = "finding" /\ ver' = [ver EXCEPT ![v] = r]
      /\ UNCHANGED <<published, entry, absent>>
  BY DEF _find_key, KeysInv, KeysTypeOK, Thread
<1>2. /\ ver[v].looks \in {1, 2} /\ entry'.keys \in SUBSET Kids
      /\ v \notin absent /\ ver[v].looks = 2 => ver[v].token.kid \in ver[v].keys
  BY <1>1 DEF KeysInv, LooksAt, KeyAt, KeysTypeOK
<1>3. at \in {"decoding", "looking", "no key"} /\ (at = "looking" => ver[v].looks = 1)
      /\ (at = "no key" => v \in absent)
  BY <1>2
<1> HIDE DEF at
<1>4. r \in Thread /\ r.token = ver[v].token /\ r.at = at /\ r.looks = ver[v].looks
  BY <1>3 DEF KeysInv, KeysTypeOK, Thread, Places, Outcomes
<1> HIDE DEF r
<1> QED BY <1>1, <1>2, <1>3, <1>4, StepOfThread

LEMMA Verifies == ASSUME KeysInv, NEW v \in Verifiers, verify_id_token(v) PROVE KeysInv'
<1>1. ver[v].at = "decoding" /\ UNCHANGED <<published, entry, absent>> /\ ver[v].token \in Tokens
  BY DEF verify_id_token, KeysInv, KeysTypeOK
<1>2. entry'.keys \in SUBSET Kids
  BY <1>1 DEF KeysInv, KeysTypeOK
<1>3. CASE ver' = [ver EXCEPT ![v].at = "identity", ![v].id = identity_from_claims(ver[v].token)]
  <2> DEFINE id == identity_from_claims(ver[v].token)
             r == [ver[v] EXCEPT !.at = "identity", !.id = id]
  <2>1. ver' = [ver EXCEPT ![v] = r] /\ id \in ClaimedIdentities
    BY <1>1, <1>3 DEF KeysInv, KeysTypeOK, Thread, ClaimedIdentities
  <2> HIDE DEF id
  <2>2. r \in Thread /\ r.token = ver[v].token /\ r.at = "identity"
    BY <2>1 DEF KeysInv, KeysTypeOK, Thread, Places, Outcomes
  <2> HIDE DEF r
  <2> QED BY <1>1, <1>2, <2>1, <2>2, StepOfThread
<1>4. CASE Refuse(v, "bad token")
  <2> DEFINE r == [ver[v] EXCEPT !.at = "bad token"]
  <2>1. ver' = [ver EXCEPT ![v] = r]
    BY <1>4 DEF Refuse, KeysInv, KeysTypeOK, Thread
  <2>2. r \in Thread /\ r.token = ver[v].token /\ r.at = "bad token"
    BY DEF KeysInv, KeysTypeOK, Thread, Places, Outcomes
  <2> HIDE DEF r
  <2> QED BY <1>1, <1>2, <2>1, <2>2, StepOfThread
<1> QED BY <1>3, <1>4 DEF verify_id_token

LEMMA AnswersToken == ASSUME KeysInv, NEW v \in Verifiers, Finish(v) PROVE KeysInv'
<1>1. Resting \in Thread /\ Resting.at = "idle"
  BY DEF Resting, Thread, Places, ClaimedIdentities
<1>2. ver' = [ver EXCEPT ![v] = Resting] /\ absent' = absent \ {v} /\ UNCHANGED <<published, entry>>
  BY DEF Finish
<1>3. KeysTypeOK'
  BY <1>1, <1>2 DEF KeysInv, KeysTypeOK
<1>4. KeyAt(v)' /\ LooksAt(v)'
  BY <1>1, <1>2 DEF KeysInv, KeysTypeOK, KeyAt, LooksAt
<1>5. ASSUME NEW w \in Verifiers \ {v} PROVE KeyAt(w)' /\ LooksAt(w)'
  BY <1>2, <1>5 DEF KeysInv, KeysTypeOK, KeyAt, LooksAt
<1> QED BY <1>3, <1>4, <1>5 DEF KeysInv

LEMMA NextIInv == KeysInv /\ [KeysNext]_idVars => KeysInv'
<1> SUFFICES ASSUME KeysInv, [KeysNext]_idVars PROVE KeysInv'
  OBVIOUS
<1>1. CASE UNCHANGED idVars
  BY <1>1 DEF idVars, KeysInv, KeysTypeOK, KeyAt, LooksAt
<1>2. CASE DocumentExpires
  <2>1. entry'.keys = entry.keys /\ UNCHANGED <<published, ver, absent>>
    BY <1>2 DEF DocumentExpires
  <2> QED BY <2>1 DEF KeysInv, KeysTypeOK, KeyAt, LooksAt
<1> QED BY <1>1, <1>2, Rotation, Begins, Looks, Fetches, Stores, Finds, Verifies, AnswersToken DEF KeysNext

\* A token is refused for its key only if the provider did not publish that key at
\* some time since the verification began, for any number of threads that store
\* documents over one another (fetch_jwks, _find_key).
THEOREM OldKeysRefuseNobody == KeysSpec => []RefusedKeyWasGone
<1>1. KeysInv => RefusedKeyWasGone
  BY DEF KeysInv, KeyAt, RefusedKeyWasGone
<1> QED BY <1>1, InitKeysInv, NextIInv, PTL DEF KeysSpec
=============================================================================
