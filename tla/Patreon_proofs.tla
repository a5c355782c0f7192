--------------------------- MODULE Patreon_proofs -----------------------------
(***************************************************************************)
(* The creator token, for any number of processes: the row never loses the *)
(* token it has and never goes back to an older one.  The links, for any   *)
(* number of users, confirmations, webhooks and workers: a Patreon account *)
(* has one holder, and a paid plan goes with a link.  The queue of resyncs,*)
(* for any number of jobs and workers: an accepted request is not dropped. *)
(***************************************************************************)
EXTENDS PatreonSync, PatreonToken, TLAPS

----------------------------------------------------------------------------
(* The creator token.                                                       *)

Token == Nat \cup {NoToken}

TokenTypeOK ==
    /\ grant \in Nat
    /\ stored \in [tok : Token, status : {"none", "active", "revoked", "refresh_failed"}, near : BOOLEAN]
    /\ held \in [Processes -> Token]
    /\ step \in [Processes -> {"down", "up", "granted"}]

\* No token is newer than the one Patreon accepts.
Issued ==
    /\ stored.tok # NoToken => stored.tok <= grant
    /\ \A p \in Processes : held[p] # NoToken => held[p] <= grant

\* While the newest token is not stored, one process alone knows it: the others
\* are refused by Patreon and cannot overtake its write.
OnlyHolder ==
    \A p \in Processes : step[p] = "granted" =>
        /\ grant > 0 /\ held[p] = grant /\ stored.tok # grant
        /\ \A q \in Processes \ {p} : held[q] # grant

IInv == TokenTypeOK /\ Issued /\ OnlyHolder

LEMMA InitIInv == TokenInit => IInv
  BY TokenAssumption DEF TokenInit, IInv, TokenTypeOK, Issued, OnlyHolder, Token

\* A failure changes the status of the row alone.
LEMMA FailureKeepsToken ==
  ASSUME IInv, NEW st \in {"revoked", "refresh_failed"},
         upsert_patreon_provider_token_state(NoToken, st), UNCHANGED <<grant, held, step>>
  PROVE  IInv' /\ stored'.tok = stored.tok
<1>1. stored' = [stored EXCEPT !.status = st]
  BY DEF upsert_patreon_provider_token_state
<1>2. stored'.tok = stored.tok /\ TokenTypeOK'
  BY <1>1 DEF IInv, TokenTypeOK
<1> QED BY <1>2 DEF IInv, Issued, OnlyHolder

LEMMA FromConfig ==
  ASSUME IInv, NEW p \in Processes, from_config(p)
  PROVE  IInv' /\ stored' = stored
<1> DEFINE t == load_persisted_creator_tokens
<1>1. t \in Nat /\ t <= grant /\ (t = 0 \/ t = stored.tok)
  BY DEF IInv, TokenTypeOK, Issued, Token, load_persisted_creator_tokens
<1> HIDE DEF t
<1>2. /\ held' = [held EXCEPT ![p] = t] /\ step' = [step EXCEPT ![p] = "up"]
      /\ UNCHANGED <<grant, stored>>
  BY DEF from_config, t
<1>3. TokenTypeOK'
  BY <1>1, <1>2 DEF IInv, TokenTypeOK, Token
<1>4. Issued'
  BY <1>1, <1>2 DEF IInv, TokenTypeOK, Issued
<1>5. OnlyHolder'
  BY <1>1, <1>2 DEF IInv, TokenTypeOK, OnlyHolder
<1> QED BY <1>2, <1>3, <1>4, <1>5 DEF IInv

LEMMA Refresh ==
  ASSUME IInv, NEW p \in Processes, refresh_creator_token(p)
  PROVE  IInv' /\ stored' = stored
<1>1. /\ step[p] = "up" /\ held[p] = grant /\ grant' = grant + 1 /\ stored' = stored
      /\ \/ held' = [held EXCEPT ![p] = grant + 1] /\ step' = [step EXCEPT ![p] = "granted"]
         \/ held' = held /\ step' = step
  BY DEF refresh_creator_token
<1>2. \A q \in Processes : step[q] # "granted"
  BY <1>1 DEF IInv, OnlyHolder
<1>3. TokenTypeOK'
  BY <1>1 DEF IInv, TokenTypeOK, Token
<1>4. Issued'
  BY <1>1, TokenAssumption DEF IInv, TokenTypeOK, Issued, Token
<1>5. OnlyHolder'
  BY <1>1, <1>2, TokenAssumption DEF IInv, TokenTypeOK, Issued, OnlyHolder, Token
<1> QED BY <1>1, <1>3, <1>4, <1>5 DEF IInv

LEMMA Persist ==
  ASSUME IInv, NEW p \in Processes, _persist_token_state(p)
  PROVE  IInv' /\ (stored' = stored \/ (stored'.tok = grant /\ grant \in Nat))
<1>1. /\ step[p] = "granted" /\ held[p] = grant /\ grant > 0 /\ grant \in Nat
      /\ \A q \in Processes \ {p} : step[q] # "granted"
  BY DEF _persist_token_state, IInv, OnlyHolder, TokenTypeOK
<1>2. step' = [step EXCEPT ![p] = "up"] /\ UNCHANGED <<grant, held>>
  BY DEF _persist_token_state
<1>3. \A q \in Processes : step'[q] # "granted"
  BY <1>1, <1>2 DEF IInv, TokenTypeOK
<1>4. stored' = stored \/ stored' = [tok |-> grant, status |-> "active", near |-> FALSE]
  BY <1>1, TokenAssumption DEF _persist_token_state, upsert_patreon_provider_token_state
<1>5. TokenTypeOK'
  <2>1. grant \in Token
    BY <1>1 DEF Token
  <2>2. stored' \in [tok : Token, status : {"none", "active", "revoked", "refresh_failed"},
                    near : BOOLEAN]
    <3>1. CASE stored' = stored
      BY <3>1 DEF IInv, TokenTypeOK
    <3>2. CASE stored' = [tok |-> grant, status |-> "active", near |-> FALSE]
      <4>1. FALSE \in BOOLEAN /\ "active" \in {"none", "active", "revoked", "refresh_failed"}
        OBVIOUS
      <4> QED BY <2>1, <3>2, <4>1, Zenon
    <3> QED BY <1>4, <3>1, <3>2
  <2> QED BY <1>2, <2>2 DEF IInv, TokenTypeOK
<1>6. Issued' /\ OnlyHolder'
  BY <1>1, <1>2, <1>3, <1>4 DEF IInv, Issued, OnlyHolder
<1> QED BY <1>1, <1>4, <1>5, <1>6 DEF IInv

LEMMA NextIInv == ASSUME IInv, [TokenNext]_tokenVars
                  PROVE  /\ IInv'
                         /\ \/ stored'.tok = stored.tok
                            \/ stored'.tok = grant /\ grant \in Nat
<1>1. CASE ExpiryNears
  <2>1. stored'.tok = stored.tok /\ TokenTypeOK'
    BY <1>1 DEF ExpiryNears, IInv, TokenTypeOK
  <2> QED BY <1>1, <2>1 DEF ExpiryNears, IInv, Issued, OnlyHolder
<1>2. ASSUME NEW p \in Processes, from_config(p) PROVE IInv' /\ stored' = stored
  BY <1>2, FromConfig
<1>3. ASSUME NEW p \in Processes, refresh_creator_token(p) PROVE IInv' /\ stored' = stored
  BY <1>3, Refresh
<1>4. ASSUME NEW p \in Processes, _persist_token_state(p)
      PROVE  IInv' /\ (stored' = stored \/ (stored'.tok = grant /\ grant \in Nat))
  BY <1>4, Persist
<1>5. ASSUME NEW p \in Processes,
             _record_refresh_failure(p) \/ _record_creator_token_degraded(p)
      PROVE  IInv' /\ stored'.tok = stored.tok
  BY <1>5, FailureKeepsToken DEF _record_refresh_failure, _record_creator_token_degraded
<1>6. ASSUME NEW p \in Processes, ProcessEnds(p) PROVE IInv' /\ stored' = stored
  BY <1>6, TokenAssumption DEF ProcessEnds, IInv, TokenTypeOK, Issued, OnlyHolder, Token
<1>7. CASE UNCHANGED tokenVars
  BY <1>7 DEF tokenVars, IInv, TokenTypeOK, Issued, OnlyHolder
<1> QED BY <1>1, <1>2, <1>3, <1>4, <1>5, <1>6, <1>7 DEF TokenNext

\* The row of the creator token keeps a token once it has one and never goes back
\* to an older one, though any number of processes refresh, fail, die and restart
\* from the environment's token (upsert_patreon_provider_token_state).
THEOREM TokenIsKept == TokenSpec => StoredTokenKept
<1>1. TokenInit => IInv
  BY InitIInv
<1>2. IInv /\ [TokenNext]_tokenVars => IInv'
  BY NextIInv
<1>3. IInv /\ [TokenNext]_tokenVars =>
        [stored.tok # NoToken => stored'.tok # NoToken /\ stored'.tok >= stored.tok]_stored
  <2> SUFFICES ASSUME IInv, [TokenNext]_tokenVars, stored.tok # NoToken
               PROVE  stored'.tok # NoToken /\ stored'.tok >= stored.tok
    OBVIOUS
  <2>1. stored.tok \in Nat /\ stored.tok <= grant
    BY DEF IInv, TokenTypeOK, Issued, Token
  <2> QED BY <2>1, NextIInv, TokenAssumption DEF IInv, TokenTypeOK
<1> QED BY <1>1, <1>2, <1>3, PTL DEF TokenSpec, StoredTokenKept

----------------------------------------------------------------------------
(* Links: who holds a Patreon account.                                      *)

ProofStates == {"pending", "blocked", "expired", "consumed"}
PurgedProof == [user |-> None, st |-> "purged"]
ProofRows == [user : Users, member : Members, st : ProofStates, tries : Nat]
AccountRows == [user : Users, sub : Subjects, linked : BOOLEAN, proof : Proofs]

EntitlementStatuses == {"free", "pending", "former", "active", "stale"}
Classified == [status : EntitlementStatuses, plan : Plans \cup {"free"}, old : BOOLEAN,
               complete : BOOLEAN, resync : BOOLEAN]

\* A confirmation: before the link, once linked, and once the member was read.
Before == [pc : {"consumed", "clear"}, user : Users, member : Members, proof : Proofs]
Since == [pc : {"linked"}, user : Users, member : Members, acct : Accounts, row : Rows]
Reading == [pc : {"read", "observed"}, user : Users, member : Members, acct : Accounts,
            row : Rows, seen : Classified]
Confirmations == {Resting} \cup Before \cup Since \cup Reading

HolderTypes ==
    /\ proofs \in [Proofs -> {NoRow, PurgedProof} \cup ProofRows]
    /\ accounts \in [Accounts -> {NoRow} \cup AccountRows]
    /\ confirm \in [Handlers -> Confirmations]

\* A proof that a confirmation carries, or a link was made by, is used up: it
\* cannot be consumed, and its id cannot be given out, again.
Asking(h) == confirm[h].pc \in {"consumed", "clear"}
Spent(p) == proofs[p] # NoRow /\ proofs[p].st # "pending"
UsedUp ==
    /\ \A h \in Handlers : Asking(h) => Spent(confirm[h].proof)
    /\ \A a \in Accounts : accounts[a] # NoRow => Spent(accounts[a].proof)

\* It is carried by one confirmation, and by none once a link was made by it.
UsedOnce ==
    /\ \A g, h \in Handlers : Asking(g) /\ Asking(h) /\ g # h => confirm[g].proof # confirm[h].proof
    /\ \A h \in Handlers, a \in Accounts :
          Asking(h) /\ accounts[a] # NoRow => accounts[a].proof # confirm[h].proof

HolderInv == HolderTypes /\ UsedUp /\ UsedOnce /\ OneHolder

\* What the tables hold is told apart by its fields.
LEMMA RowKinds ==
  /\ PurgedProof # NoRow /\ PurgedProof.st = "purged"
  /\ \A x \in ProofRows : x # NoRow /\ x # PurgedProof
  /\ \A x \in AccountRows : x # NoRow
  /\ \A x \in Before : x.pc \in {"consumed", "clear"}
  /\ \A x \in Since : x.pc = "linked"
  /\ \A x \in Reading : x.pc \in {"read", "observed"}
<1>1. PurgedProof # NoRow /\ PurgedProof.st = "purged"
  BY DEF PurgedProof, NoRow
<1>2. \A x \in ProofRows : x # NoRow /\ x # PurgedProof
  BY LinksAssumption DEF ProofRows, NoRow, PurgedProof
<1>3. \A x \in AccountRows : x # NoRow
  BY LinksAssumption DEF AccountRows, NoRow
<1>4. /\ \A x \in Before : x.pc \in {"consumed", "clear"}
      /\ \A x \in Since : x.pc = "linked"
      /\ \A x \in Reading : x.pc \in {"read", "observed"}
  BY DEF Before, Since, Reading
<1> QED BY <1>1, <1>2, <1>3, <1>4

LEMMA InitHolder == LinksInit => HolderInv
<1> SUFFICES ASSUME LinksInit PROVE HolderInv
  OBVIOUS
<1>1. Resting \in Confirmations /\ Resting.pc = "idle"
  BY DEF Resting, Confirmations
<1>2. HolderTypes
  BY <1>1 DEF LinksInit, HolderTypes
<1>3. \A h \in Handlers : ~Asking(h)
  BY <1>1 DEF LinksInit, Asking
<1>4. \A a \in Accounts : accounts[a] = NoRow
  BY DEF LinksInit
<1> QED BY <1>2, <1>3, <1>4 DEF HolderInv, UsedUp, UsedOnce, OneHolder

LEMMA HolderFrame == ASSUME HolderInv, UNCHANGED <<proofs, accounts, confirm>> PROVE HolderInv'
  BY DEF HolderInv, HolderTypes, UsedUp, UsedOnce, OneHolder, Asking, Spent, Linked

\* A confirmation ends, or goes on after its link was made.
LEMMA MovesOn ==
  ASSUME HolderInv, NEW h \in Handlers, NEW c \in Confirmations,
         c.pc \notin {"consumed", "clear"},
         confirm' = [confirm EXCEPT ![h] = c], UNCHANGED <<proofs, accounts>>
  PROVE  HolderInv'
<1>1. HolderTypes'
  BY DEF HolderInv, HolderTypes
<1>2. \A g \in Handlers : Asking(g)' => g # h /\ Asking(g) /\ confirm'[g] = confirm[g]
  BY DEF HolderInv, HolderTypes, Asking
<1>3. UsedUp' /\ UsedOnce' /\ OneHolder'
  BY <1>2 DEF HolderInv, UsedUp, UsedOnce, OneHolder, Spent, Linked
<1> QED BY <1>1, <1>3 DEF HolderInv

LEMMA Rests ==
  ASSUME HolderInv, NEW h \in Handlers,
         confirm' = [confirm EXCEPT ![h] = Resting], UNCHANGED <<proofs, accounts>>
  PROVE  HolderInv'
<1>1. Resting \in Confirmations /\ Resting.pc \notin {"consumed", "clear"}
  BY DEF Resting, Confirmations
<1> QED BY <1>1, MovesOn

\* A proof changes: no other proof does, and a used one stays used.
LEMMA ProofMoves ==
  ASSUME HolderInv, NEW p \in Proofs, NEW x \in {NoRow, PurgedProof} \cup ProofRows,
         proofs' = [proofs EXCEPT ![p] = x], UNCHANGED <<accounts, confirm>>,
         Spent(p) => x # NoRow /\ x.st # "pending"
  PROVE  HolderInv'
<1>1. HolderTypes'
  BY DEF HolderInv, HolderTypes
<1>2. \A q \in Proofs : Spent(q) => Spent(q)'
  BY DEF HolderInv, HolderTypes, Spent
<1>3. \A h \in Handlers : Asking(h) => confirm[h].proof \in Proofs
  BY RowKinds DEF HolderInv, HolderTypes, Asking, Confirmations, Before, Resting
<1>4. \A a \in Accounts : accounts[a] # NoRow => accounts[a].proof \in Proofs
  BY DEF HolderInv, HolderTypes, AccountRows
<1>5. UsedUp'
  BY <1>2, <1>3, <1>4 DEF HolderInv, UsedUp, Asking
<1> QED BY <1>1, <1>5 DEF HolderInv, UsedOnce, OneHolder, Asking, Linked

LEMMA ProofRequested ==
  ASSUME HolderInv, NEW u \in Users, NEW m \in Members, NEW p \in Proofs,
         request_patreon_link(u, m, p)
  PROVE  HolderInv'
<1> DEFINE x == [user |-> u, member |-> m, st |-> "pending", tries |-> 0]
<1>1. x \in ProofRows
  BY DEF ProofRows, ProofStates
<1>2. Unused(Proofs, proofs) # {} /\ p = NewId(Proofs, proofs)
  BY DEF request_patreon_link, _create_link_proof, IsNew
<1>3. proofs[p] = NoRow
  BY <1>2 DEF NewId, Unused
<1>4. proofs' = [proofs EXCEPT ![p] = x] /\ UNCHANGED <<accounts, confirm>>
  BY DEF request_patreon_link, _create_link_proof
<1> HIDE DEF x
<1> QED BY <1>1, <1>3, <1>4, ProofMoves DEF Spent

LEMMA ProofWithdrawn ==
  ASSUME HolderInv, NEW p \in Proofs, WrongSecret(p) \/ ProofExpires(p) \/ PurgeProof(p)
  PROVE  HolderInv'
<1>1. CASE WrongSecret(p)
  <2> DEFINE x == [[proofs[p] EXCEPT !.tries = @ + 1] EXCEPT
                     !.st = IF proofs[p].tries + 1 >= MaxTries THEN "blocked" ELSE @]
  <2>1. proofs[p] \in ProofRows /\ proofs[p].st = "pending"
    BY <1>1, RowKinds DEF WrongSecret, HolderInv, HolderTypes
  <2>2. x \in ProofRows
    <3> DEFINE y == [proofs[p] EXCEPT !.tries = @ + 1]
               st == IF proofs[p].tries + 1 >= MaxTries THEN "blocked" ELSE y.st
    <3>1. proofs[p].tries + 1 \in Nat
      BY <2>1 DEF ProofRows
    <3>2. y \in ProofRows /\ y.st = "pending"
      BY <2>1, <3>1 DEF ProofRows
    <3>3. st \in ProofStates
      BY <3>2 DEF ProofStates
    <3>4. x = [y EXCEPT !.st = st]
      OBVIOUS
    <3> HIDE DEF x, y, st
    <3> QED BY <3>2, <3>3, <3>4 DEF ProofRows
  <2>3. proofs' = [proofs EXCEPT ![p] = x] /\ UNCHANGED <<accounts, confirm>>
    BY <1>1 DEF WrongSecret, HolderInv, HolderTypes
  <2> HIDE DEF x
  <2> QED BY <2>1, <2>2, <2>3, ProofMoves DEF Spent
<1>2. CASE ProofExpires(p)
  <2> DEFINE x == [proofs[p] EXCEPT !.st = "expired"]
  <2>1. proofs[p] \in ProofRows /\ proofs[p].st = "pending"
    BY <1>2, RowKinds DEF ProofExpires, HolderInv, HolderTypes
  <2>2. x \in ProofRows
    BY <2>1 DEF ProofRows, ProofStates
  <2>3. proofs' = [proofs EXCEPT ![p] = x] /\ UNCHANGED <<accounts, confirm>>
    BY <1>2 DEF ProofExpires, HolderInv, HolderTypes
  <2> HIDE DEF x
  <2> QED BY <2>1, <2>2, <2>3, ProofMoves DEF Spent
<1>3. CASE PurgeProof(p)
  <2>1. proofs' = [proofs EXCEPT ![p] = PurgedProof] /\ UNCHANGED <<accounts, confirm>>
    BY <1>3 DEF PurgeProof, PurgedProof
  <2> QED BY <2>1, RowKinds, ProofMoves
<1> QED BY <1>1, <1>2, <1>3

\* Nobody carried the proof that is consumed: it was pending.
LEMMA ProofConsumed ==
  ASSUME HolderInv, NEW h \in Handlers, NEW p \in Proofs, sp_patreon_proof_consume(h, p)
  PROVE  HolderInv'
<1> DEFINE x == [[proofs[p] EXCEPT !.st = "consumed"] EXCEPT !.tries = @ + 1]
           c == [pc |-> "consumed", user |-> proofs[p].user, member |-> proofs[p].member, proof |-> p]
<1>1. proofs[p] \in ProofRows /\ proofs[p].st = "pending" /\ ~Spent(p)
  BY RowKinds DEF sp_patreon_proof_consume, HolderInv, HolderTypes, Spent
<1>2. x \in ProofRows /\ x.st = "consumed"
  <2> DEFINE y == [proofs[p] EXCEPT !.st = "consumed"]
  <2>1. y \in ProofRows /\ y.st = "consumed"
    BY <1>1 DEF ProofRows, ProofStates
  <2>2. y.tries + 1 \in Nat /\ x = [y EXCEPT !.tries = y.tries + 1]
    BY <2>1 DEF ProofRows
  <2> HIDE DEF x, y
  <2> QED BY <2>1, <2>2 DEF ProofRows
<1>3. c \in Before /\ c.pc = "consumed" /\ c.proof = p
  BY <1>1 DEF Before, ProofRows
<1>4. proofs' = [proofs EXCEPT ![p] = x] /\ confirm' = [confirm EXCEPT ![h] = c] /\ UNCHANGED accounts
  BY DEF sp_patreon_proof_consume, HolderInv, HolderTypes
<1> HIDE DEF x, c
<1>5. HolderTypes'
  BY <1>2, <1>3, <1>4 DEF HolderInv, HolderTypes, Confirmations
<1>6. Spent(p)' /\ \A q \in Proofs : Spent(q) => Spent(q)'
  BY <1>2, <1>4, RowKinds DEF HolderInv, HolderTypes, Spent
<1>7. \A g \in Handlers \ {h} : confirm'[g] = confirm[g] /\ (Asking(g)' <=> Asking(g))
  BY <1>4 DEF HolderInv, HolderTypes, Asking
<1>8. confirm'[h] = c
  BY <1>4 DEF HolderInv, HolderTypes
<1>9. /\ \A g \in Handlers : Asking(g) => confirm[g].proof \in Proofs /\ confirm[g].proof # p
      /\ \A a \in Accounts : accounts[a] # NoRow =>
            accounts[a].proof \in Proofs /\ accounts[a].proof # p
  <2>1. \A g \in Handlers : Asking(g) => confirm[g].proof \in Proofs
    BY RowKinds DEF HolderInv, HolderTypes, Asking, Confirmations, Before, Resting
  <2>2. \A a \in Accounts : accounts[a] # NoRow => accounts[a].proof \in Proofs
    BY DEF HolderInv, HolderTypes, AccountRows
  <2> QED BY <1>1, <2>1, <2>2 DEF HolderInv, UsedUp
<1>10. UsedUp'
  BY <1>3, <1>4, <1>6, <1>7, <1>8, <1>9 DEF HolderInv, UsedUp
<1>11. UsedOnce'
  BY <1>3, <1>4, <1>7, <1>8, <1>9 DEF HolderInv, UsedOnce
<1>12. OneHolder'
  BY <1>4 DEF HolderInv, OneHolder, Linked
<1> QED BY <1>5, <1>10, <1>11, <1>12 DEF HolderInv

LEMMA ConflictChecked ==
  ASSUME HolderInv, NEW h \in Handlers, check_patreon_link_conflict(h)
  PROVE  HolderInv'
<1> DEFINE c == [confirm[h] EXCEPT !.pc = "clear"]
<1>1. confirm[h] \in Before /\ Asking(h)
  BY RowKinds DEF check_patreon_link_conflict, HolderInv, HolderTypes, Confirmations, Resting, Asking
<1>2. c \in Before /\ c.proof = confirm[h].proof
  BY <1>1 DEF Before
<1>3. UNCHANGED <<proofs, accounts>> /\ \/ confirm' = [confirm EXCEPT ![h] = c]
                                        \/ confirm' = [confirm EXCEPT ![h] = Resting]
  BY DEF check_patreon_link_conflict
<1> HIDE DEF c
<1>4. CASE confirm' = [confirm EXCEPT ![h] = Resting]
  BY <1>3, <1>4, Rests
<1>5. CASE confirm' = [confirm EXCEPT ![h] = c]
  <2>1. HolderTypes'
    BY <1>2, <1>3, <1>5 DEF HolderInv, HolderTypes, Confirmations
  <2>2. \A g \in Handlers : Asking(g)' => Asking(g) /\ confirm'[g].proof = confirm[g].proof
    BY <1>1, <1>2, <1>5 DEF HolderInv, HolderTypes, Asking
  <2>3. UsedUp' /\ UsedOnce' /\ OneHolder'
    BY <1>3, <2>2 DEF HolderInv, UsedUp, UsedOnce, OneHolder, Spent, Linked
  <2> QED BY <2>1, <2>3 DEF HolderInv
<1> QED BY <1>3, <1>4, <1>5

\* The transaction that links looks again: no other holder, no other identity.
LEMMA AccountLinked ==
  ASSUME HolderInv, NEW h \in Handlers, link_patreon_account(h)
  PROVE  HolderInv'
<1> DEFINE u == confirm[h].user
           m == confirm[h].member
           p == confirm[h].proof
<1>1. confirm[h] \in Before /\ Asking(h) /\ u \in Users /\ m \in Members /\ p \in Proofs
  BY RowKinds DEF link_patreon_account, HolderInv, HolderTypes, Confirmations, Resting, Asking, Before
<1>2. CASE confirm' = [confirm EXCEPT ![h] = Resting] /\ UNCHANGED <<accounts, rows>>
  BY <1>2, Rests DEF link_patreon_account
<1>3. ASSUME NEW a \in Accounts, NEW r \in Rows,
             sp_patreon_link_account(u, m, p, a, r),
             confirm' = [confirm EXCEPT ![h] =
                [pc |-> "linked", user |-> u, member |-> m, acct |-> a, row |-> r]],
             UNCHANGED proofs
      PROVE  HolderInv'
  <2> DEFINE c == [pc |-> "linked", user |-> u, member |-> m, acct |-> a, row |-> r]
             s == SubjectOf[m]
             b == [user |-> u, sub |-> s, linked |-> TRUE, proof |-> p]
  <2>1. c \in Confirmations /\ c.pc = "linked"
    BY <1>1 DEF Confirmations, Since
  <2>2. b \in AccountRows /\ s \in Subjects /\ b.user = u /\ b.sub = s /\ b.proof = p
    BY <1>1, LinksAssumption DEF AccountRows
  <2>3. confirm' = [confirm EXCEPT ![h] = c]
    BY <1>3
  <2>4. ~LinkRefused(u, m)
    BY <1>3 DEF sp_patreon_link_account
  <2> HIDE DEF c
  <2>5. CASE UNCHANGED accounts
    BY <1>3, <2>1, <2>3, <2>5, MovesOn
  <2>6. CASE /\ HolderOf(s) = {} /\ IsNew(a, Accounts, accounts)
             /\ accounts' = [accounts EXCEPT ![a] = b]
    <3>1. accounts[a] = NoRow
      BY <2>6 DEF IsNew, NewId, Unused
    <3>2. \A x \in Accounts : Linked(x) => accounts[x].sub # s /\ accounts[x].user # u
      BY <2>4, <2>6 DEF LinkRefused, HolderOf, AccountOf
    <3> HIDE DEF u, m, p, s, b
    <3>3. HolderTypes'
      BY <1>3, <2>1, <2>2, <2>3, <2>6 DEF HolderInv, HolderTypes
    <3>4. \A g \in Handlers : Asking(g)' => g # h /\ Asking(g) /\ confirm'[g] = confirm[g]
      BY <2>1, <2>3 DEF HolderInv, HolderTypes, Asking
    <3>5. accounts'[a] = b /\ \A x \in Accounts \ {a} : accounts'[x] = accounts[x]
      BY <2>6 DEF HolderInv, HolderTypes
    <3>6. Spent(p) /\ p = confirm[h].proof /\ \A q \in Proofs : Spent(q)' <=> Spent(q)
      BY <1>1, <1>3 DEF HolderInv, UsedUp, Spent, p
    <3>7. /\ \A g \in Handlers \ {h} : Asking(g) => confirm[g].proof # p
          /\ \A x \in Accounts : accounts[x] # NoRow => accounts[x].proof # p
      BY <1>1, <3>6 DEF HolderInv, UsedOnce
    <3>8. /\ \A g \in Handlers : Asking(g) => confirm[g].proof \in Proofs
          /\ \A x \in Accounts : accounts[x] # NoRow => accounts[x].proof \in Proofs
      <4>1. \A g \in Handlers : Asking(g) => confirm[g].proof \in Proofs
        BY RowKinds DEF HolderInv, HolderTypes, Asking, Confirmations, Before, Resting
      <4>2. \A x \in Accounts : accounts[x] # NoRow => accounts[x].proof \in Proofs
        BY DEF HolderInv, HolderTypes, AccountRows
      <4> QED BY <4>1, <4>2
    <3>9. UsedUp'
      BY <1>1, <2>2, <3>4, <3>5, <3>6, <3>8 DEF HolderInv, UsedUp
    <3>10. UsedOnce'
      BY <2>2, <3>4, <3>5, <3>7 DEF HolderInv, UsedOnce
    <3>11. \A x \in Accounts \ {a} : Linked(x)' <=> Linked(x)
      BY <3>5 DEF Linked
    <3>12. OneHolder'
      BY <2>2, <3>2, <3>5, <3>7, <3>11 DEF HolderInv, OneHolder
    <3> QED BY <3>3, <3>9, <3>10, <3>12 DEF HolderInv
  <2> QED BY <1>3, <2>5, <2>6 DEF sp_patreon_link_account
<1>4. UNCHANGED proofs
  BY DEF link_patreon_account
<1> QED BY <1>2, <1>3, <1>4 DEF link_patreon_account

LEMMA AccountUnlinked ==
  ASSUME HolderInv, NEW u \in Users, unlink_patreon_link(u)
  PROVE  HolderInv'
<1>1. PICK a \in AccountOf(u) : accounts' = [accounts EXCEPT ![a].linked = FALSE]
  BY DEF unlink_patreon_link
<1>2. a \in Accounts /\ accounts[a] \in AccountRows
  BY <1>1 DEF AccountOf, Linked, HolderInv, HolderTypes
<1> DEFINE b == [accounts[a] EXCEPT !.linked = FALSE]
<1>3. b \in AccountRows /\ b.proof = accounts[a].proof /\ b.linked = FALSE
  BY <1>2 DEF AccountRows
<1>4. accounts' = [accounts EXCEPT ![a] = b] /\ UNCHANGED <<proofs, confirm>>
  BY <1>1 DEF unlink_patreon_link
<1> HIDE DEF b
<1>5. HolderTypes'
  BY <1>2, <1>3, <1>4 DEF HolderInv, HolderTypes
<1>6. accounts'[a] = b /\ \A x \in Accounts \ {a} : accounts'[x] = accounts[x]
  BY <1>2, <1>4 DEF HolderInv, HolderTypes
<1>7. \A x \in Accounts : accounts'[x] # NoRow =>
         accounts[x] # NoRow /\ accounts'[x].proof = accounts[x].proof
  BY <1>2, <1>3, <1>6, RowKinds
<1>8. \A x \in Accounts : Linked(x)' => x # a /\ Linked(x) /\ accounts'[x] = accounts[x]
  BY <1>3, <1>6 DEF Linked
<1>9. UsedUp' /\ UsedOnce'
  BY <1>4, <1>7 DEF HolderInv, UsedUp, UsedOnce, Asking, Spent
<1>10. OneHolder'
  BY <1>7, <1>8 DEF HolderInv, OneHolder
<1> QED BY <1>5, <1>9, <1>10 DEF HolderInv

\* What a reading is classified to, whatever entitlement is on record.
EntitlementRows == [status : EntitlementStatuses, link : {"none", "linked", "unlinked"},
                    plan : Plans \cup {"free"}, row : Rows \cup {None}, old : BOOLEAN]

LEMMA Classifies ==
  ASSUME NEW m, NEW v \in Reads \ {"absent"}, NEW e \in EntitlementRows
  PROVE  classify_patreon_entitlement(m, v, e) \in Classified
<1>1. \A st \in EntitlementStatuses, p \in Plans \cup {"free"} : _future(st, p) \in Classified
  BY DEF _future, Classified
<1>2. /\ e.status \in EntitlementStatuses /\ e.plan \in Plans \cup {"free"} /\ e.old \in BOOLEAN
      /\ {"free", "pending", "former", "active", "stale"} = EntitlementStatuses
  BY DEF EntitlementRows, EntitlementStatuses
<1>0. _future("pending", "free") \in Classified /\ "free" \in Plans \cup {"free"}
  BY <1>1 DEF EntitlementStatuses
<1>3. _classify_without_payload(e) \in Classified
  BY <1>2 DEF _classify_without_payload, Classified
<1>4. _preserve_current_or_pending(e) \in Classified
  BY <1>3 DEF _preserve_current_or_pending, Classified
<1>5. _unknown_tier_or_unmapped_result(e) \in Classified
  <2> DEFINE st == IF e.old THEN "stale" ELSE "pending"
  <2>1. [_classify_without_payload(e) EXCEPT !.status = st, !.complete = TRUE, !.resync = TRUE]
           \in Classified
    BY <1>2, <1>3 DEF Classified
  <2>2. [_future("pending", "free") EXCEPT !.resync = TRUE] \in Classified
    BY <1>0 DEF Classified
  <2>3. _unknown_tier_or_unmapped_result(e) \in
           {[_classify_without_payload(e) EXCEPT !.status = st, !.complete = TRUE, !.resync = TRUE],
            [_future("pending", "free") EXCEPT !.resync = TRUE]}
    BY Zenon DEF _unknown_tier_or_unmapped_result
  <2> HIDE DEF st
  <2> QED BY <2>1, <2>2, <2>3, Zenon
<1>6. _ignored_campaigns_only_result(e) \in Classified
  <2>1. [_classify_without_payload(e) EXCEPT !.complete = TRUE, !.resync = TRUE] \in Classified
    BY <1>3 DEF Classified
  <2>2. _ignored_campaigns_only_result(e) \in
           {[_classify_without_payload(e) EXCEPT !.complete = TRUE, !.resync = TRUE],
            _future("pending", "free")}
    BY Zenon DEF _ignored_campaigns_only_result
  <2> QED BY <1>0, <2>1, <2>2, Zenon
<1>7. _future("former", "free") \in Classified /\ (v \in Plans => _future("active", v) \in Classified)
  BY <1>1, <1>2
<1>8. v \in {"former", "unmapped", "partial"} \cup Plans
  BY DEF Reads
<1> QED BY <1>4, <1>5, <1>6, <1>7, <1>8 DEF classify_patreon_entitlement

LEMMA NoEntitlementKnown == NoEntitlement \in EntitlementRows
  BY DEF NoEntitlement, EntitlementRows, EntitlementStatuses

\* What a confirmation does once the link is made.
LEMMA MemberRead ==
  ASSUME HolderInv, NEW h \in Handlers, NEW v \in Reads, _member_payload_for_consumed_proof(h, v)
  PROVE  \E c \in Reading : /\ confirm' = [confirm EXCEPT ![h] = c] /\ c.pc = "read"
                            /\ confirm[h] \in Since
                            /\ c.user = confirm[h].user /\ c.acct = confirm[h].acct
<1> DEFINE seen == classify_patreon_entitlement(confirm[h].member,
                        IF v = "absent" THEN "partial" ELSE v, NoEntitlement)
           c == [pc |-> "read", user |-> confirm[h].user, member |-> confirm[h].member,
                 acct |-> confirm[h].acct, row |-> confirm[h].row, seen |-> seen]
<1>1. confirm[h] \in Since
  BY RowKinds DEF _member_payload_for_consumed_proof, HolderInv, HolderTypes, Confirmations, Resting
<1>2. (IF v = "absent" THEN "partial" ELSE v) \in Reads \ {"absent"}
  BY DEF Reads
<1>3. seen \in Classified
  BY <1>2, Classifies, NoEntitlementKnown
<1>4. confirm' = [confirm EXCEPT ![h] = c]
  BY DEF _member_payload_for_consumed_proof, HolderInv, HolderTypes
<1> HIDE DEF seen
<1>5. c \in Reading /\ c.pc = "read" /\ c.user = confirm[h].user /\ c.acct = confirm[h].acct
  BY <1>1, <1>3 DEF Since, Reading
<1> HIDE DEF c
<1> QED BY <1>1, <1>4, <1>5

LEMMA MemberStored ==
  ASSUME HolderInv, NEW h \in Handlers, ObserveInitial(h)
  PROVE  /\ confirm[h] \in Reading
         /\ \E r \in Rows, c \in Reading :
              /\ sp_patreon_membership_observe(confirm[h].user, confirm[h].acct, confirm[h].member, r)
              /\ confirm' = [confirm EXCEPT ![h] = c] /\ c.pc = "observed"
              /\ c.user = confirm[h].user /\ c.acct = confirm[h].acct
<1>1. confirm[h] \in Reading
  BY RowKinds DEF ObserveInitial, HolderInv, HolderTypes, Confirmations, Resting
<1>2. PICK r \in Rows :
         /\ sp_patreon_membership_observe(confirm[h].user, confirm[h].acct, confirm[h].member, r)
         /\ confirm' = [confirm EXCEPT ![h].pc = "observed", ![h].row = r]
  BY DEF ObserveInitial
<1> DEFINE c == [confirm[h] EXCEPT !.pc = "observed", !.row = r]
<1>3. c \in Reading /\ c.pc = "observed" /\ c.user = confirm[h].user /\ c.acct = confirm[h].acct
  BY <1>1 DEF Reading
<1>4. confirm' = [confirm EXCEPT ![h] = c]
  BY <1>2 DEF HolderInv, HolderTypes
<1> HIDE DEF c
<1> QED BY <1>1, <1>2, <1>3, <1>4

LEMMA ConfirmHolder ==
  ASSUME HolderInv, NEW h \in Handlers, confirm_patreon_link(h) \/ ConfirmFails(h)
  PROVE  HolderInv'
<1>1. ASSUME NEW p \in Proofs, sp_patreon_proof_consume(h, p) PROVE HolderInv'
  BY <1>1, ProofConsumed
<1>2. CASE check_patreon_link_conflict(h)
  BY <1>2, ConflictChecked
<1>3. CASE link_patreon_account(h)
  BY <1>3, AccountLinked
<1>4. ASSUME NEW v \in Reads, _member_payload_for_consumed_proof(h, v) PROVE HolderInv'
  <2>1. PICK c \in Reading : confirm' = [confirm EXCEPT ![h] = c] /\ c.pc = "read"
    BY <1>4, MemberRead
  <2>2. UNCHANGED <<proofs, accounts>>
    BY <1>4 DEF _member_payload_for_consumed_proof
  <2>3. c \in Confirmations
    BY DEF Confirmations
  <2> QED BY <2>1, <2>2, <2>3, MovesOn
<1>5. CASE ObserveInitial(h)
  <2>1. PICK c \in Reading : confirm' = [confirm EXCEPT ![h] = c] /\ c.pc = "observed"
    BY <1>5, MemberStored
  <2>2. UNCHANGED <<proofs, accounts>>
    BY <1>5 DEF ObserveInitial
  <2>3. c \in Confirmations
    BY DEF Confirmations
  <2> QED BY <2>1, <2>2, <2>3, MovesOn
<1>6. CASE _persist_pending_initial_snapshot(h) \/ UpsertInitial(h) \/ ConfirmFails(h)
  <2>1. confirm' = [confirm EXCEPT ![h] = Resting] /\ UNCHANGED <<proofs, accounts>>
    BY <1>6 DEF _persist_pending_initial_snapshot, UpsertInitial, ConfirmFails
  <2> QED BY <2>1, Rests
<1> QED BY <1>1, <1>2, <1>3, <1>4, <1>5, <1>6 DEF confirm_patreon_link

LEMMA LinkingHolder == ASSUME HolderInv, Linking PROVE HolderInv'
<1>1. ASSUME NEW u \in Users, unlink_patreon_link(u) PROVE HolderInv'
  BY <1>1, AccountUnlinked
<1>2. ASSUME NEW u \in Users, EntitlementAges(u) PROVE HolderInv'
  BY <1>2, HolderFrame DEF EntitlementAges
<1>3. ASSUME NEW u \in Users, NEW m \in Members, NEW p \in Proofs, request_patreon_link(u, m, p)
      PROVE  HolderInv'
  BY <1>3, ProofRequested
<1>4. ASSUME NEW p \in Proofs, WrongSecret(p) \/ ProofExpires(p) \/ PurgeProof(p) PROVE HolderInv'
  BY <1>4, ProofWithdrawn
<1>5. ASSUME NEW h \in Handlers, confirm_patreon_link(h) \/ ConfirmFails(h) PROVE HolderInv'
  BY <1>5, ConfirmHolder
<1> QED BY <1>1, <1>2, <1>3, <1>4, <1>5 DEF Linking

\* What webhooks and the worker do leaves the links as they are.
Around ==
    \/ \E j \in JobIds : LeaseLapses(j)
    \/ \E d \in Deliveries : DeliveryAbandoned(d) \/ \E k \in {"update", "delete"} : Emit(d, k)
    \/ \E u \in Users : enqueue_internal_patreon_resync(u)
    \/ \E k \in Keys : enqueue_admin_patreon_resync(k)
    \/ \E h \in Handlers : HookFails(h) \/ receive_patreon_webhook(h)
    \/ \E w \in Workers : \/ MemberFails(w) \/ _handle_provider_failure(w) \/ WorkerDies(w)
                          \/ PatreonSyncWorker(w)

LEMMA AroundLinks == Around => UNCHANGED linkRest
<1>1. ASSUME NEW h \in Handlers, receive_patreon_webhook(h) PROVE UNCHANGED linkRest
  BY <1>1 DEF receive_patreon_webhook, record_patreon_webhook_delivery, linkRest, linkVars,
       _process_verified_member_payload, _enqueue_member_source_of_truth_resync,
       _persist_classification, _mark_delivery
<1>2. ASSUME NEW w \in Workers, PatreonSyncWorker(w) PROVE UNCHANGED linkRest
  BY <1>2 DEF PatreonSyncWorker, claim_patreon_sync_jobs, run_full_campaign_sweep, linkRest, linkVars,
       _process_claimed_job, FetchCampaign, _persistence_context_for_member,
       persist_member_classification, EndOfCampaign, _downgrade_absent_members,
       _complete_job, complete_patreon_sync_job
<1>3. ASSUME NEW w \in Workers, MemberFails(w) \/ _handle_provider_failure(w) \/ WorkerDies(w)
      PROVE  UNCHANGED linkRest
  BY <1>3 DEF MemberFails, _handle_provider_failure, WorkerDies, linkRest, linkVars
<1>4. ASSUME NEW h \in Handlers, HookFails(h) PROVE UNCHANGED linkRest
  BY <1>4 DEF HookFails, linkRest, linkVars
<1>5. ASSUME NEW j \in JobIds, LeaseLapses(j) PROVE UNCHANGED linkRest
  BY <1>5 DEF LeaseLapses, linkRest, linkVars
<1>6. ASSUME NEW d \in Deliveries, DeliveryAbandoned(d) \/ \E k \in {"update", "delete"} : Emit(d, k)
      PROVE  UNCHANGED linkRest
  BY <1>6 DEF DeliveryAbandoned, Emit, linkRest, linkVars
<1>7. ASSUME NEW u \in Users, enqueue_internal_patreon_resync(u) PROVE UNCHANGED linkRest
  BY <1>7 DEF enqueue_internal_patreon_resync, linkRest, linkVars
<1>8. ASSUME NEW k \in Keys, enqueue_admin_patreon_resync(k) PROVE UNCHANGED linkRest
  BY <1>8 DEF enqueue_admin_patreon_resync, linkRest, linkVars
<1> QED BY <1>1, <1>2, <1>3, <1>4, <1>5, <1>6, <1>7, <1>8 DEF Around

\* The steps of the whole.
LEMMA Steps ==
  ASSUME [SyncNext]_allVars
  PROVE  \/ Linking /\ UNCHANGED syncVars
         \/ \E m \in Members, v \in Reads : Changes(m, v)
         \/ \E h \in Handlers : _initial_entitlement_after_link(h)
         \/ Around
         \/ UNCHANGED allVars
  BY DEF SyncNext, Surroundings, Around

LEMMA NextHolder == HolderInv /\ [SyncNext]_allVars => HolderInv'
<1> SUFFICES ASSUME HolderInv, [SyncNext]_allVars PROVE HolderInv'
  OBVIOUS
<1>1. CASE Linking
  BY <1>1, LinkingHolder
<1>2. ASSUME NEW m \in Members, NEW v \in Reads, Changes(m, v) PROVE HolderInv'
  BY <1>2, HolderFrame DEF Changes, PatreonChanges
<1>3. ASSUME NEW h \in Handlers, _initial_entitlement_after_link(h) PROVE HolderInv'
  BY <1>3, Rests DEF _initial_entitlement_after_link
<1>4. CASE Around
  BY <1>4, AroundLinks, HolderFrame DEF linkRest
<1>5. CASE UNCHANGED allVars
  BY <1>5, HolderFrame DEF allVars, linkVars
<1> QED BY <1>1, <1>2, <1>3, <1>4, <1>5, Steps

\* However the confirmations of two users overlap, and whatever the webhooks,
\* the worker and unlinking do meanwhile, a Patreon account has one holder, a
\* user one Patreon account and every link a proof of its own
\* (sp_patreon_link_account looks again; a proof is consumed once).
THEOREM LinkHasOneHolder == SyncSpec => []OneHolder
<1>1. LinksInit /\ SyncInit => HolderInv
  BY InitHolder
<1>2. HolderInv /\ [SyncNext]_allVars => HolderInv'
  BY NextHolder
<1>3. HolderInv => OneHolder
  BY DEF HolderInv
<1> QED BY <1>1, <1>2, <1>3, PTL DEF SyncSpec

----------------------------------------------------------------------------
(* Entitlements: a paid plan goes with a link.                              *)

MemberRows == [user : Users, acct : Accounts, member : Members, live : BOOLEAN]

\* The account row, linked or not any more, is of that user.
Owned(u, a) == u \in Users /\ a \in Accounts /\ accounts[a] # NoRow /\ accounts[a].user = u

RecordTypes ==
    /\ truth \in [Members -> Reads]
    /\ rows \in [Rows -> {NoRow} \cup MemberRows]
    /\ current \in [Users -> EntitlementRows]

RowsOwned == \A r \in Rows : rows[r] # NoRow => Owned(rows[r].user, rows[r].acct)
ConfirmsOwned ==
    \A h \in Handlers : confirm[h].pc \in {"linked", "read", "observed"} =>
        Owned(confirm[h].user, confirm[h].acct)
FreeUnlessLinked ==
    \A u \in Users : AccountOf(u) = {} /\ u \notin late =>
        current[u].plan = "free" /\ current[u].status \notin {"active", "stale"}

PlanInv == RecordTypes /\ RowsOwned /\ ConfirmsOwned /\ FreeUnlessLinked

\* What a webhook or the worker is about to write is of the holder it read.
Deliverable == [pc : {"due", "answered"}, member : Members, kind : {"update", "delete"},
                read : Reads \ {"absent"}]
Hooks == {Quiet} \cup [pc : {"recorded", "ignored", "processed"}, d : Deliveries]
         \cup [pc : {"resync", "commit"}, d : Deliveries, user : Users, acct : Accounts,
               seen : Classified]
         \cup [pc : {"observed"}, d : Deliveries, user : Users, acct : Accounts,
               seen : Classified, row : Rows]
HookOK(x) ==
    /\ x # Quiet => sent[x.d] # Quiet
    /\ x.pc \in {"resync", "commit", "observed"} => Owned(x.user, x.acct)

ScanFields == {"pc", "todo", "job", "key", "left", "camp", "page", "seen", "found", "failed",
               "bad", "ctx", "gone"}
WorkerOK(x) ==
    /\ x.pc \in {"scan", "page", "member", "observed", "gone"} =>
          /\ DOMAIN x = ScanFields
          /\ x.page \subseteq Members \X (Reads \ {"absent"})
          /\ \A r \in x.gone : r \in Rows /\ rows[r] # NoRow
    /\ x.pc \in {"member", "observed"} => Owned(x.ctx.user, x.ctx.acct) /\ x.ctx.seen \in Classified
    /\ x.pc = "member" => x.ctx.member \in Members
    /\ x.pc = "observed" => x.ctx.row \in Rows

AroundInv ==
    /\ sent \in [Deliveries -> {Quiet} \cup Deliverable]
    /\ hook \in [Handlers -> Hooks] /\ \A h \in Handlers : HookOK(hook[h])
    /\ DOMAIN wk = Workers /\ \A w \in Workers : WorkerOK(wk[w])

\* An account keeps its user and a membership row stays, linked, live or not.
Kept ==
    /\ \A a \in Accounts : accounts[a] # NoRow =>
          accounts'[a] # NoRow /\ accounts'[a].user = accounts[a].user
    /\ \A r \in Rows : rows[r] # NoRow => rows'[r] # NoRow

LEMMA OwnedKept == Kept => \A u, a : Owned(u, a) => Owned(u, a)'
  BY DEF Kept, Owned

LEMMA InitPlan == LinksInit => PlanInv
<1> SUFFICES ASSUME LinksInit PROVE PlanInv
  OBVIOUS
<1>1. RecordTypes
  BY NoEntitlementKnown DEF LinksInit, RecordTypes
<1>2. RowsOwned /\ ConfirmsOwned
  BY DEF LinksInit, RowsOwned, ConfirmsOwned, Resting
<1>3. FreeUnlessLinked
  BY DEF LinksInit, FreeUnlessLinked, NoEntitlement
<1> QED BY <1>1, <1>2, <1>3 DEF PlanInv

LEMMA PlanFrame ==
  ASSUME PlanInv, UNCHANGED <<truth, accounts, rows, current, confirm, late>>
  PROVE  PlanInv' /\ Kept
  BY DEF PlanInv, RecordTypes, RowsOwned, ConfirmsOwned, FreeUnlessLinked, AccountOf, Linked, Owned, Kept

LEMMA ConfirmMoves ==
  ASSUME HolderInv, ConfirmsOwned, Kept, NEW h \in Handlers, NEW c,
         confirm' = [confirm EXCEPT ![h] = c],
         c.pc \in {"linked", "read", "observed"} => Owned(c.user, c.acct)'
  PROVE  ConfirmsOwned'
<1> SUFFICES ASSUME NEW g \in Handlers, confirm'[g].pc \in {"linked", "read", "observed"}
             PROVE  Owned(confirm[g].user, confirm[g].acct)'
  BY DEF ConfirmsOwned
<1>1. CASE g = h
  <2>1. confirm'[g] = c
    BY <1>1 DEF HolderInv, HolderTypes
  <2> QED BY <2>1 DEF Owned
<1>2. CASE g # h
  <2>1. confirm'[g] = confirm[g]
    BY <1>2 DEF HolderInv, HolderTypes
  <2>2. Owned(confirm[g].user, confirm[g].acct)
    BY <2>1 DEF ConfirmsOwned
  <2> QED BY <2>1, <2>2 DEF Kept, Owned
<1> QED BY <1>1, <1>2

\* The handler alone moves.
LEMMA OnlyConfirm ==
  ASSUME HolderInv, PlanInv, NEW h \in Handlers, NEW c,
         confirm' = [confirm EXCEPT ![h] = c], UNCHANGED <<truth, accounts, rows, current, late>>,
         c.pc \in {"linked", "read", "observed"} => Owned(c.user, c.acct)
  PROVE  PlanInv' /\ Kept
<1>1. Kept
  BY DEF Kept
<1>2. c.pc \in {"linked", "read", "observed"} => Owned(c.user, c.acct)'
  BY <1>1 DEF Owned, Kept
<1>3. ConfirmsOwned'
  BY <1>1, <1>2, ConfirmMoves DEF PlanInv
<1>4. RecordTypes' /\ RowsOwned' /\ FreeUnlessLinked'
  BY DEF PlanInv, RecordTypes, RowsOwned, FreeUnlessLinked, AccountOf, Linked, Owned
<1> QED BY <1>1, <1>3, <1>4 DEF PlanInv

\* sp_patreon_membership_observe: the member's row is the holder's.
LEMMA Observes ==
  ASSUME RecordTypes, RowsOwned, NEW u \in Users, NEW a \in Accounts, NEW m \in Members,
         NEW r \in Rows, sp_patreon_membership_observe(u, a, m, r), Owned(u, a)',
         \A x \in Accounts : accounts[x] # NoRow =>
            accounts'[x] # NoRow /\ accounts'[x].user = accounts[x].user
  PROVE  /\ rows' \in [Rows -> {NoRow} \cup MemberRows] /\ RowsOwned'
         /\ \A q \in Rows : rows[q] # NoRow => rows'[q] # NoRow
<1> DEFINE b == [user |-> u, acct |-> a, member |-> m, live |-> TRUE]
<1>1. b \in MemberRows /\ b.user = u /\ b.acct = a
  BY DEF MemberRows
<1>2. \A x \in MemberRows : x # NoRow
  BY LinksAssumption DEF MemberRows, NoRow
<1>3. \A x \in MemberRows : /\ [x EXCEPT !.live = FALSE] \in MemberRows
                            /\ [x EXCEPT !.live = FALSE].user = x.user
                            /\ [x EXCEPT !.live = FALSE].acct = x.acct
  BY DEF MemberRows
<1>4. \/ UNCHANGED rows
      \/ /\ rows[r] = NoRow
         /\ \E D \in SUBSET {q \in Rows : Live(q)} :
              rows' = [q \in Rows |-> IF q = r THEN b
                                      ELSE IF q \in D THEN [rows[q] EXCEPT !.live = FALSE] ELSE rows[q]]
  <2> DEFINE holding == {q \in Rows : Live(q) /\ rows[q].member = m}
                superseded == {q \in Rows : /\ Live(q) /\ rows[q].user = u
                                            /\ CampaignOf[rows[q].member] = CampaignOf[m]}
  <2>1. \/ UNCHANGED rows
        \/ /\ IsNew(r, Rows, rows)
           /\ rows' = [q \in Rows |-> IF q = r THEN b
                          ELSE IF q \in holding \cup superseded THEN [rows[q] EXCEPT !.live = FALSE]
                          ELSE rows[q]]
    BY Zenon DEF sp_patreon_membership_observe
  <2>2. holding \cup superseded \in SUBSET {q \in Rows : Live(q)}
    OBVIOUS
  <2>3. IsNew(r, Rows, rows) => rows[r] = NoRow
    BY DEF IsNew, NewId, Unused
  <2> HIDE DEF holding, superseded, b
  <2> QED BY <2>1, <2>2, <2>3, Zenon
<1> HIDE DEF b
<1>5. CASE UNCHANGED rows
  BY <1>5 DEF RecordTypes, RowsOwned, Owned
<1>6. ASSUME rows[r] = NoRow, NEW D \in SUBSET {q \in Rows : Live(q)},
             rows' = [q \in Rows |-> IF q = r THEN b
                         ELSE IF q \in D THEN [rows[q] EXCEPT !.live = FALSE] ELSE rows[q]]
      PROVE  /\ rows' \in [Rows -> {NoRow} \cup MemberRows] /\ RowsOwned'
             /\ \A q \in Rows : rows[q] # NoRow => rows'[q] # NoRow
  <2>1. rows'[r] = b
    BY <1>6
  <2>2. ASSUME NEW q \in Rows, q # r
        PROVE  \/ rows'[q] = rows[q]
               \/ /\ rows[q] \in MemberRows /\ rows'[q] \in MemberRows
                  /\ rows'[q].user = rows[q].user /\ rows'[q].acct = rows[q].acct
    <3>1. CASE q \in D
      <4>1. rows[q] \in MemberRows
        BY <3>1 DEF Live, RecordTypes
      <4>2. rows'[q] = [rows[q] EXCEPT !.live = FALSE]
        BY <1>6, <2>2, <3>1
      <4> QED BY <1>3, <4>1, <4>2
    <3>2. CASE q \notin D
      BY <1>6, <2>2, <3>2
    <3> QED BY <3>1, <3>2
  <2>3. rows' \in [Rows -> {NoRow} \cup MemberRows]
    <3>1. rows' = [q \in Rows |-> rows'[q]]
      BY <1>6
    <3>2. \A q \in Rows : rows'[q] \in {NoRow} \cup MemberRows
      BY <1>1, <2>1, <2>2 DEF RecordTypes
    <3> QED BY <3>1, <3>2
  <2>4. RowsOwned'
    <3> SUFFICES ASSUME NEW q \in Rows, rows'[q] # NoRow
                 PROVE  Owned(rows[q].user, rows[q].acct)'
      BY DEF RowsOwned
    <3>1. CASE q = r
      BY <1>1, <2>1, <3>1 DEF Owned
    <3>2. CASE q # r
      <4>1. /\ rows[q] # NoRow
            /\ rows'[q].user = rows[q].user /\ rows'[q].acct = rows[q].acct
        BY <1>2, <2>2, <3>2
      <4> QED BY <4>1 DEF RowsOwned, Owned
    <3> QED BY <3>1, <3>2
  <2>5. \A q \in Rows : rows[q] # NoRow => rows'[q] # NoRow
    BY <1>1, <1>2, <2>1, <2>2
  <2> QED BY <2>3, <2>4, <2>5
<1> QED BY <1>4, <1>5, <1>6

\* sp_patreon_entitlement_snapshot_upsert, for a user whose link was read: it
\* holds still, or the write is remembered.
LEMMA PlanWritten ==
  ASSUME HolderTypes, RecordTypes, FreeUnlessLinked, UNCHANGED accounts,
         NEW u, NEW a, Owned(u, a), NEW r \in Rows, NEW c \in Classified,
         sp_patreon_entitlement_snapshot_upsert(u, r, c), WriteFrom(u, a)
  PROVE  current' \in [Users -> EntitlementRows] /\ FreeUnlessLinked'
<1> DEFINE e == [status |-> c.status, link |-> "linked", plan |-> c.plan, row |-> r, old |-> c.old]
<1>1. e \in EntitlementRows
  BY DEF EntitlementRows, Classified
<1>2. current' = current \/ current' = [current EXCEPT ![u] = e]
  BY DEF sp_patreon_entitlement_snapshot_upsert
<1>3. u \in Users /\ a \in Accounts /\ accounts[a].user = u
  BY DEF Owned
<1> HIDE DEF e
<1>4. current' \in [Users -> EntitlementRows]
  BY <1>1, <1>2 DEF RecordTypes
<1>5. \A v \in Users \ {u} : current'[v] = current[v]
  BY <1>2 DEF RecordTypes
<1>6. AccountOf(u) # {} \/ u \in late'
  BY <1>3 DEF WriteFrom, AccountOf
<1>7. /\ \A v \in Users : v \in late => v \in late'
      /\ UNCHANGED accounts
  BY DEF WriteFrom
<1>8. \A v \in Users : AccountOf(v)' = AccountOf(v)
  BY <1>7 DEF AccountOf, Linked
<1>9. FreeUnlessLinked'
  BY <1>5, <1>6, <1>7, <1>8 DEF FreeUnlessLinked
<1> QED BY <1>4, <1>9

LEMMA PatreonMoves ==
  ASSUME PlanInv, NEW m \in Members, NEW v \in Reads, PatreonChanges(m, v)
  PROVE  PlanInv' /\ Kept
<1>1. truth' \in [Members -> Reads] /\ UNCHANGED <<accounts, rows, current, confirm, late>>
  BY DEF PatreonChanges, PlanInv, RecordTypes
<1> QED BY <1>1 DEF PlanInv, RecordTypes, RowsOwned, ConfirmsOwned, FreeUnlessLinked, AccountOf,
             Linked, Owned, Kept

LEMMA Ages ==
  ASSUME PlanInv, NEW u \in Users, EntitlementAges(u) PROVE PlanInv' /\ Kept
<1> DEFINE e == [current[u] EXCEPT !.old = TRUE]
<1>1. current[u] \in EntitlementRows
  BY DEF PlanInv, RecordTypes
<1>2. e \in EntitlementRows /\ e.plan = current[u].plan /\ e.status = current[u].status
  BY <1>1 DEF EntitlementRows
<1>3. current' = [current EXCEPT ![u] = e] /\ UNCHANGED <<truth, accounts, rows, confirm, late>>
  BY DEF EntitlementAges
<1> HIDE DEF e
<1>4. RecordTypes'
  BY <1>2, <1>3 DEF PlanInv, RecordTypes
<1>5. \A v \in Users : current'[v].plan = current[v].plan /\ current'[v].status = current[v].status
  BY <1>2, <1>3 DEF PlanInv, RecordTypes
<1>6. RowsOwned' /\ ConfirmsOwned' /\ FreeUnlessLinked' /\ Kept
  BY <1>3, <1>5 DEF PlanInv, RowsOwned, ConfirmsOwned, FreeUnlessLinked, AccountOf, Linked, Owned, Kept
<1> QED BY <1>4, <1>6 DEF PlanInv

\* The plan ends with the link; other users' rows are not touched.
LEMMA Unlinks ==
  ASSUME HolderInv, PlanInv, NEW u \in Users, unlink_patreon_link(u) PROVE PlanInv' /\ Kept
<1>1. PICK a \in AccountOf(u) :
         LET mine == {r \in Rows : Live(r) /\ rows[r].user = u /\ rows[r].acct = a}
         IN /\ accounts' = [accounts EXCEPT ![a].linked = FALSE]
            /\ IF mine = {} THEN UNCHANGED rows
               ELSE \E r \in mine : rows' = [rows EXCEPT ![r].live = FALSE]
  BY DEF unlink_patreon_link
<1>2. a \in Accounts /\ accounts[a] \in AccountRows /\ accounts[a].user = u
  BY <1>1 DEF AccountOf, Linked, HolderInv, HolderTypes
<1> DEFINE b == [accounts[a] EXCEPT !.linked = FALSE]
           e == [current[u] EXCEPT !.status = "free", !.plan = "free", !.link = "unlinked", !.old = FALSE]
<1>3. b \in AccountRows /\ b.user = u /\ accounts' = [accounts EXCEPT ![a] = b]
  BY <1>1, <1>2 DEF AccountRows
<1>4. current[u] \in EntitlementRows
  BY DEF PlanInv, RecordTypes
<1>5. e \in EntitlementRows /\ e.plan = "free" /\ e.status = "free"
  BY <1>4 DEF EntitlementRows, EntitlementStatuses
<1>6. current' = [current EXCEPT ![u] = e] /\ UNCHANGED <<truth, confirm, late>>
  BY DEF unlink_patreon_link, PlanInv, RecordTypes
<1> HIDE DEF b, e
<1>7. \A x \in MemberRows : /\ [x EXCEPT !.live = FALSE] \in MemberRows
                            /\ [x EXCEPT !.live = FALSE].user = x.user
                            /\ [x EXCEPT !.live = FALSE].acct = x.acct
  BY DEF MemberRows
<1>8. \A x \in MemberRows : x # NoRow
  BY LinksAssumption DEF MemberRows, NoRow
<1>9. /\ rows' \in [Rows -> {NoRow} \cup MemberRows]
      /\ \A r \in Rows : /\ rows'[r] # NoRow <=> rows[r] # NoRow
                         /\ rows[r] # NoRow => rows'[r].user = rows[r].user /\ rows'[r].acct = rows[r].acct
  <2>1. CASE UNCHANGED rows
    BY <2>1 DEF PlanInv, RecordTypes
  <2>2. ASSUME NEW r \in Rows, Live(r), rows' = [rows EXCEPT ![r].live = FALSE] PROVE <1>9!:
    <3> DEFINE x == [rows[r] EXCEPT !.live = FALSE]
    <3>1. rows[r] \in MemberRows /\ rows[r] # NoRow
      BY <2>2 DEF Live, PlanInv, RecordTypes
    <3>2. x \in MemberRows /\ x.user = rows[r].user /\ x.acct = rows[r].acct /\ x # NoRow
      BY <1>7, <1>8, <3>1
    <3>3. rows' = [rows EXCEPT ![r] = x]
      BY <2>2
    <3> HIDE DEF x
    <3> QED BY <3>1, <3>2, <3>3 DEF PlanInv, RecordTypes
  <2> QED BY <1>1, <2>1, <2>2
<1>10. \A x \in Accounts : accounts[x] # NoRow => accounts'[x] # NoRow /\ accounts'[x].user = accounts[x].user
  BY <1>2, <1>3, RowKinds DEF HolderInv, HolderTypes
<1>11. Kept
  BY <1>9, <1>10 DEF Kept
<1>12. RecordTypes'
  BY <1>5, <1>6, <1>9 DEF PlanInv, RecordTypes
<1>13. RowsOwned' /\ ConfirmsOwned'
  BY <1>6, <1>9, <1>10 DEF PlanInv, RowsOwned, ConfirmsOwned, Owned
<1>14. FreeUnlessLinked'
  <2> SUFFICES ASSUME NEW v \in Users, AccountOf(v)' = {}, v \notin late
               PROVE  current'[v].plan = "free" /\ current'[v].status \notin {"active", "stale"}
    BY <1>6 DEF FreeUnlessLinked
  <2>1. CASE v = u
    BY <1>5, <1>6, <2>1 DEF PlanInv, RecordTypes
  <2>2. CASE v # u
    <3>1. \A x \in Accounts : x # a => accounts'[x] = accounts[x]
      BY <1>3 DEF HolderInv, HolderTypes
    <3>2. AccountOf(v) = {}
      BY <1>2, <2>2, <3>1 DEF AccountOf, Linked
    <3>3. current'[v] = current[v]
      BY <1>6, <2>2 DEF PlanInv, RecordTypes
    <3> QED BY <3>2, <3>3 DEF PlanInv, FreeUnlessLinked
  <2> QED BY <2>1, <2>2
<1> QED BY <1>11, <1>12, <1>13, <1>14 DEF PlanInv

LEMMA Links ==
  ASSUME HolderInv, PlanInv, NEW h \in Handlers, link_patreon_account(h) PROVE PlanInv' /\ Kept
<1> SUFFICES ASSUME NEW u, NEW m, NEW p, NEW s, u = confirm[h].user, m = confirm[h].member,
                    p = confirm[h].proof, s = SubjectOf[m]
             PROVE  PlanInv' /\ Kept
  OBVIOUS
<1>1. u \in Users /\ m \in Members /\ p \in Proofs /\ s \in Subjects
  BY RowKinds, LinksAssumption
     DEF link_patreon_account, HolderInv, HolderTypes, Confirmations, Resting, Before
<1>2. UNCHANGED <<truth, current, late>>
  BY DEF link_patreon_account
<1>3. CASE confirm' = [confirm EXCEPT ![h] = Resting] /\ UNCHANGED <<accounts, rows>>
  BY <1>2, <1>3, OnlyConfirm DEF Resting
<1>4. ASSUME NEW a \in Accounts, NEW r \in Rows,
             sp_patreon_link_account(u, m, p, a, r),
             confirm' = [confirm EXCEPT ![h] =
                [pc |-> "linked", user |-> u, member |-> m, acct |-> a, row |-> r]]
      PROVE  PlanInv' /\ Kept
  <2> DEFINE b == [user |-> u, sub |-> s, linked |-> TRUE, proof |-> p]
             c == [pc |-> "linked", user |-> u, member |-> m, acct |-> a, row |-> r]
  <2>1. b \in AccountRows /\ b.user = u /\ b.linked = TRUE
    BY <1>1 DEF AccountRows
  <2>2. ~LinkRefused(u, m) /\ sp_patreon_membership_observe(u, a, m, r)
    BY <1>4 DEF sp_patreon_link_account
  <2>3. \/ a \in HolderOf(s) /\ UNCHANGED accounts
        \/ IsNew(a, Accounts, accounts) /\ accounts' = [accounts EXCEPT ![a] = b]
    BY <1>4 DEF sp_patreon_link_account
  <2>4. IsNew(a, Accounts, accounts) => accounts[a] = NoRow
    BY DEF IsNew, NewId, Unused
  <2>5. a \in HolderOf(s) => Linked(a) /\ accounts[a].user = u
    BY <2>2 DEF HolderOf, LinkRefused
  <2>6. c.user = u /\ c.acct = a /\ confirm' = [confirm EXCEPT ![h] = c]
    BY <1>4
  <2> HIDE DEF b, c
  <2>7. /\ Owned(u, a)'
        /\ \A x \in Accounts : accounts[x] # NoRow => accounts'[x] = accounts[x]
    <3>1. CASE a \in HolderOf(s) /\ UNCHANGED accounts
      BY <1>1, <2>5, <3>1 DEF Owned, Linked
    <3>2. CASE accounts[a] = NoRow /\ accounts' = [accounts EXCEPT ![a] = b]
      <4>1. accounts'[a] = b /\ \A x \in Accounts : x # a => accounts'[x] = accounts[x]
        BY <3>2 DEF HolderInv, HolderTypes
      <4>2. b # NoRow
        BY <2>1, RowKinds
      <4> QED BY <1>1, <2>1, <3>2, <4>1, <4>2 DEF Owned
    <3> QED BY <2>3, <2>4, <3>1, <3>2
  <2>8. \A x \in Accounts : accounts[x] # NoRow => accounts'[x] # NoRow /\ accounts'[x].user = accounts[x].user
    BY <2>7
  <2>9. /\ rows' \in [Rows -> {NoRow} \cup MemberRows] /\ RowsOwned'
        /\ \A q \in Rows : rows[q] # NoRow => rows'[q] # NoRow
    <3>1. RecordTypes /\ RowsOwned
      BY DEF PlanInv
    <3> QED BY <1>1, <2>2, <2>7, <2>8, <3>1, Observes
  <2>10. Kept
    BY <2>8, <2>9 DEF Kept
  <2>11. ConfirmsOwned'
    <3>1. Owned(c.user, c.acct)'
      BY <2>6, <2>7 DEF Owned
    <3> QED BY <2>6, <2>10, <3>1, ConfirmMoves DEF PlanInv
  <2>12. FreeUnlessLinked'
    <3>1. \A x \in Accounts : Linked(x) => Linked(x)' /\ accounts'[x] = accounts[x]
      BY <2>7 DEF Linked
    <3>2. \A v \in Users : AccountOf(v)' = {} => AccountOf(v) = {}
      BY <3>1 DEF AccountOf
    <3> QED BY <1>2, <3>2 DEF PlanInv, FreeUnlessLinked
  <2>13. RecordTypes'
    BY <1>2, <2>9 DEF PlanInv, RecordTypes
  <2> QED BY <2>9, <2>10, <2>11, <2>12, <2>13 DEF PlanInv
<1> QED BY <1>3, <1>4 DEF link_patreon_account

\* One store of a reading: the row, or the entitlement, of a link that was read.
LEMMA RowStored ==
  ASSUME PlanInv, NEW u, NEW a, Owned(u, a), NEW m \in Members, NEW r \in Rows,
         sp_patreon_membership_observe(u, a, m, r), WriteFrom(u, a),
         UNCHANGED <<truth, accounts, current>>
  PROVE  RecordTypes' /\ RowsOwned' /\ FreeUnlessLinked' /\ Kept
<1>1. u \in Users /\ a \in Accounts /\ Owned(u, a)' /\ RecordTypes /\ RowsOwned
  BY DEF Owned, PlanInv
<1>2. /\ rows' \in [Rows -> {NoRow} \cup MemberRows] /\ RowsOwned'
      /\ \A q \in Rows : rows[q] # NoRow => rows'[q] # NoRow
  BY <1>1, Observes
<1>3. \A v \in Users : v \in late => v \in late'
  BY DEF WriteFrom
<1>4. \A v \in Users : AccountOf(v)' = AccountOf(v)
  BY DEF AccountOf, Linked
<1>5. FreeUnlessLinked'
  BY <1>3, <1>4 DEF PlanInv, FreeUnlessLinked
<1> QED BY <1>1, <1>2, <1>5 DEF RecordTypes, Kept

LEMMA PlanStored ==
  ASSUME HolderInv, PlanInv, NEW u, NEW a, Owned(u, a), NEW r \in Rows, NEW c \in Classified,
         sp_patreon_entitlement_snapshot_upsert(u, r, c), WriteFrom(u, a),
         UNCHANGED <<truth, accounts, rows>>
  PROVE  RecordTypes' /\ RowsOwned' /\ FreeUnlessLinked' /\ Kept
<1>1. HolderTypes /\ RecordTypes /\ FreeUnlessLinked
  BY DEF HolderInv, PlanInv
<1>2. current' \in [Users -> EntitlementRows] /\ FreeUnlessLinked'
  BY <1>1, PlanWritten
<1>3. RowsOwned' /\ Kept
  BY DEF PlanInv, RowsOwned, Owned, Kept
<1> QED BY <1>1, <1>2, <1>3 DEF RecordTypes

LEMMA ConfirmPlan ==
  ASSUME HolderInv, PlanInv, NEW h \in Handlers, confirm_patreon_link(h) \/ ConfirmFails(h)
  PROVE  PlanInv' /\ Kept
<1>1. ASSUME NEW p \in Proofs, sp_patreon_proof_consume(h, p) PROVE PlanInv' /\ Kept
  <2> DEFINE c == [pc |-> "consumed", user |-> proofs[p].user, member |-> proofs[p].member, proof |-> p]
  <2>1. c.pc = "consumed" /\ confirm' = [confirm EXCEPT ![h] = c]
        /\ UNCHANGED <<truth, accounts, rows, current, late>>
    BY <1>1 DEF sp_patreon_proof_consume
  <2> HIDE DEF c
  <2> QED BY <2>1, OnlyConfirm
<1>2. CASE check_patreon_link_conflict(h)
  <2> DEFINE c == [confirm[h] EXCEPT !.pc = "clear"]
  <2>1. confirm[h] \in Before
    BY <1>2, RowKinds DEF check_patreon_link_conflict, HolderInv, HolderTypes, Confirmations, Resting
  <2>2. c.pc = "clear"
    BY <2>1 DEF Before
  <2>3. UNCHANGED <<truth, accounts, rows, current, late>>
        /\ \/ confirm' = [confirm EXCEPT ![h] = c]
           \/ confirm' = [confirm EXCEPT ![h] = Resting]
    BY <1>2 DEF check_patreon_link_conflict
  <2> HIDE DEF c
  <2> QED BY <2>2, <2>3, OnlyConfirm DEF Resting
<1>3. CASE link_patreon_account(h)
  BY <1>3, Links
<1>4. ASSUME NEW v \in Reads, _member_payload_for_consumed_proof(h, v) PROVE PlanInv' /\ Kept
  <2>1. PICK c \in Reading : /\ confirm' = [confirm EXCEPT ![h] = c] /\ confirm[h] \in Since
                             /\ c.user = confirm[h].user /\ c.acct = confirm[h].acct
    BY <1>4, MemberRead
  <2>2. Owned(c.user, c.acct)
    BY <2>1, RowKinds DEF PlanInv, ConfirmsOwned
  <2>3. UNCHANGED <<truth, accounts, rows, current, late>>
    BY <1>4 DEF _member_payload_for_consumed_proof
  <2> QED BY <2>1, <2>2, <2>3, OnlyConfirm
<1>5. CASE ObserveInitial(h)
  <2> DEFINE u == confirm[h].user
             a == confirm[h].acct
             m == confirm[h].member
  <2>1. PICK r \in Rows, c \in Reading :
           /\ sp_patreon_membership_observe(u, a, m, r)
           /\ confirm' = [confirm EXCEPT ![h] = c] /\ c.user = u /\ c.acct = a
    BY <1>5, MemberStored
  <2>2. confirm[h] \in Reading
    BY <1>5, MemberStored
  <2>3. Owned(u, a) /\ m \in Members
    BY <2>2, RowKinds DEF PlanInv, ConfirmsOwned, Reading
  <2>4. WriteFrom(u, a) /\ UNCHANGED <<truth, accounts, current>>
    BY <1>5 DEF ObserveInitial
  <2> HIDE DEF u, a, m
  <2>5. RecordTypes' /\ RowsOwned' /\ FreeUnlessLinked' /\ Kept
    BY <2>1, <2>3, <2>4, RowStored
  <2>6. Owned(c.user, c.acct)'
    BY <2>1, <2>3, <2>4 DEF Owned
  <2>7. ConfirmsOwned'
    BY <2>1, <2>5, <2>6, ConfirmMoves DEF PlanInv
  <2> QED BY <2>5, <2>7 DEF PlanInv
<1>6. CASE _persist_pending_initial_snapshot(h) \/ UpsertInitial(h)
  <2> DEFINE u == confirm[h].user
             a == confirm[h].acct
             r == confirm[h].row
             c == IF confirm[h].pc = "read" THEN _future("pending", "free") ELSE confirm[h].seen
  <2>1. confirm[h] \in Reading
    BY <1>6, RowKinds DEF _persist_pending_initial_snapshot, UpsertInitial, HolderInv, HolderTypes,
         Confirmations, Resting
  <2>2. Owned(u, a) /\ r \in Rows /\ confirm[h].seen \in Classified
    BY <2>1, RowKinds DEF PlanInv, ConfirmsOwned, Reading
  <2>3. _future("pending", "free") \in Classified
    BY DEF _future, Classified, EntitlementStatuses
  <2>4. /\ sp_patreon_entitlement_snapshot_upsert(u, r, c) /\ WriteFrom(u, a)
        /\ confirm' = [confirm EXCEPT ![h] = Resting] /\ UNCHANGED <<truth, accounts, rows>>
    BY <1>6 DEF _persist_pending_initial_snapshot, UpsertInitial
  <2>5. c \in Classified
    BY <2>2, <2>3
  <2> HIDE DEF u, a, r, c
  <2>6. RecordTypes' /\ RowsOwned' /\ FreeUnlessLinked' /\ Kept
    BY <2>2, <2>4, <2>5, PlanStored
  <2>7. ConfirmsOwned'
    BY <2>4, <2>6, ConfirmMoves DEF PlanInv, Resting
  <2> QED BY <2>6, <2>7 DEF PlanInv
<1>7. CASE ConfirmFails(h)
  BY <1>7, OnlyConfirm DEF ConfirmFails, Resting
<1> QED BY <1>1, <1>2, <1>3, <1>4, <1>5, <1>6, <1>7 DEF confirm_patreon_link

LEMMA LinkingPlan == ASSUME HolderInv, PlanInv, Linking PROVE PlanInv' /\ Kept
<1>1. ASSUME NEW u \in Users, unlink_patreon_link(u) PROVE PlanInv' /\ Kept
  BY <1>1, Unlinks
<1>2. ASSUME NEW u \in Users, EntitlementAges(u) PROVE PlanInv' /\ Kept
  BY <1>2, Ages
<1>3. ASSUME NEW u \in Users, NEW m \in Members, NEW p \in Proofs, request_patreon_link(u, m, p)
      PROVE  PlanInv' /\ Kept
  BY <1>3, PlanFrame DEF request_patreon_link
<1>4. ASSUME NEW p \in Proofs, WrongSecret(p) \/ ProofExpires(p) \/ PurgeProof(p)
      PROVE  PlanInv' /\ Kept
  BY <1>4, PlanFrame DEF WrongSecret, ProofExpires, PurgeProof
<1>5. ASSUME NEW h \in Handlers, confirm_patreon_link(h) \/ ConfirmFails(h) PROVE PlanInv' /\ Kept
  BY <1>5, ConfirmPlan
<1> QED BY <1>1, <1>2, <1>3, <1>4, <1>5 DEF Linking

----------------------------------------------------------------------------
(* Webhooks and the worker write what they read of a link.                  *)

LEMMA InitAround == SyncInit => AroundInv
<1> SUFFICES ASSUME SyncInit PROVE AroundInv
  OBVIOUS
<1>1. sent \in [Deliveries -> {Quiet} \cup Deliverable]
  BY DEF SyncInit
<1>2. hook \in [Handlers -> Hooks] /\ \A h \in Handlers : HookOK(hook[h])
  BY DEF SyncInit, Hooks, HookOK, Quiet
<1>3. DOMAIN wk = Workers /\ \A w \in Workers : WorkerOK(wk[w])
  BY DEF SyncInit, WorkerOK, Idle
<1> QED BY <1>1, <1>2, <1>3 DEF AroundInv

LEMMA WorkersKept == ASSUME Kept, NEW x, WorkerOK(x) PROVE WorkerOK(x)'
<1>1. Owned(x.ctx.user, x.ctx.acct) => Owned(x.ctx.user, x.ctx.acct)'
  BY OwnedKept
<1>2. \A r \in Rows : rows[r] # NoRow => rows'[r] # NoRow
  BY DEF Kept
<1> QED BY <1>1, <1>2 DEF WorkerOK

LEMMA HooksKept ==
  ASSUME Kept, NEW x, HookOK(x), x # Quiet => sent'[x.d] # Quiet PROVE HookOK(x)'
<1>1. Owned(x.user, x.acct) => Owned(x.user, x.acct)'
  BY OwnedKept
<1> QED BY <1>1 DEF HookOK

LEMMA AroundFrame == ASSUME AroundInv, Kept, UNCHANGED <<sent, hook, wk>> PROVE AroundInv'
<1>1. \A h \in Handlers : HookOK(hook[h])'
  <2> SUFFICES ASSUME NEW h \in Handlers, NEW x, x = hook[h] PROVE HookOK(x)'
    OBVIOUS
  <2>1. HookOK(x) /\ (x # Quiet => sent'[x.d] # Quiet)
    BY DEF AroundInv, HookOK
  <2> QED BY <2>1, HooksKept
<1>2. \A w \in Workers : WorkerOK(wk[w])'
  <2> SUFFICES ASSUME NEW w \in Workers, NEW x, x = wk[w] PROVE WorkerOK(x)'
    OBVIOUS
  <2>1. WorkerOK(x)
    BY DEF AroundInv
  <2> QED BY <2>1, WorkersKept
<1> QED BY <1>1, <1>2 DEF AroundInv

\* One worker moves.
LEMMA WorkerMoves ==
  ASSUME AroundInv, Kept, UNCHANGED <<sent, hook>>, NEW w \in Workers, NEW x,
         DOMAIN wk' = Workers, \A v \in Workers \ {w} : wk'[v] = wk[v], wk'[w] = x, WorkerOK(x)'
  PROVE  AroundInv'
<1>1. \A h \in Handlers : HookOK(hook[h])'
  <2> SUFFICES ASSUME NEW h \in Handlers, NEW y, y = hook[h] PROVE HookOK(y)'
    OBVIOUS
  <2>1. HookOK(y) /\ (y # Quiet => sent'[y.d] # Quiet)
    BY DEF AroundInv, HookOK
  <2> QED BY <2>1, HooksKept
<1>3. \A v \in Workers : WorkerOK(wk[v])'
  <2> SUFFICES ASSUME NEW v \in Workers, NEW y, y = wk'[v] PROVE WorkerOK(y)'
    OBVIOUS
  <2>1. CASE v = w
    BY <2>1
  <2>2. CASE v # w
    <3>1. y = wk[v]
      BY <2>2
    <3>2. WorkerOK(y)
      BY <3>1 DEF AroundInv
    <3> QED BY <3>2, WorkersKept
  <2> QED BY <2>1, <2>2
<1> QED BY <1>1, <1>3 DEF AroundInv

\* One handler moves, and with it perhaps its delivery.
LEMMA HookMoves ==
  ASSUME AroundInv, Kept, UNCHANGED wk, NEW h \in Handlers, NEW x \in Hooks,
         hook' = [hook EXCEPT ![h] = x], HookOK(x)',
         sent' \in [Deliveries -> {Quiet} \cup Deliverable],
         \A d \in Deliveries : sent[d] # Quiet => sent'[d] # Quiet
  PROVE  AroundInv'
<1>1. \A w \in Workers : WorkerOK(wk[w])'
  <2> SUFFICES ASSUME NEW w \in Workers, NEW y, y = wk[w] PROVE WorkerOK(y)'
    OBVIOUS
  <2>1. WorkerOK(y)
    BY DEF AroundInv
  <2> QED BY <2>1, WorkersKept
<1>2. hook' \in [Handlers -> Hooks] /\ hook'[h] = x /\ \A g \in Handlers \ {h} : hook'[g] = hook[g]
  BY DEF AroundInv
<1>3. \A y \in Hooks : y # Quiet => y.d \in Deliveries
  BY DEF Hooks
<1>4. \A g \in Handlers : HookOK(hook[g])'
  <2> SUFFICES ASSUME NEW g \in Handlers, NEW y, y = hook'[g] PROVE HookOK(y)'
    OBVIOUS
  <2>1. CASE g = h
    BY <1>2, <2>1
  <2>2. CASE g # h
    <3>1. y = hook[g] /\ y \in Hooks
      BY <1>2, <2>2
    <3>2. HookOK(y)
      BY <3>1 DEF AroundInv
    <3>3. y # Quiet => sent'[y.d] # Quiet
      BY <1>3, <3>1, <3>2 DEF HookOK
    <3> QED BY <3>2, <3>3, HooksKept
  <2> QED BY <2>1, <2>2
<1> QED BY <1>1, <1>2, <1>4 DEF AroundInv

\* The holder of the member's Patreon account, as read.
LEMMA LinkRead ==
  ASSUME HolderInv, PlanInv, NEW m, ReadLink(m) # Quiet
  PROVE  /\ Owned(ReadLink(m).user, ReadLink(m).acct)
         /\ ReadLink(m).cur \in EntitlementRows
<1> DEFINE a == CHOOSE x \in HolderOf(SubjectOf[m]) : TRUE
<1>1. HolderOf(SubjectOf[m]) # {}
  BY DEF ReadLink
<1>2. a \in HolderOf(SubjectOf[m])
  BY <1>1
<1> HIDE DEF a
<1>3. a \in Accounts /\ accounts[a] \in AccountRows /\ accounts[a] # NoRow
  BY <1>2 DEF HolderOf, Linked, HolderInv, HolderTypes
<1>4. ReadLink(m) = [pc |-> "ctx", acct |-> a, user |-> accounts[a].user, member |-> m,
                     cur |-> current[accounts[a].user]]
  BY <1>1 DEF ReadLink, a
<1>5. accounts[a].user \in Users
  BY <1>3 DEF AccountRows
<1> QED BY <1>3, <1>4, <1>5 DEF Owned, PlanInv, RecordTypes

LEMMA HookKinds ==
  /\ \A x \in Hooks : x # Quiet => x.d \in Deliveries /\ x.pc # "idle"
  /\ \A x \in Hooks : x.pc \in {"resync", "commit"} =>
        x \in [pc : {"resync", "commit"}, d : Deliveries, user : Users, acct : Accounts, seen : Classified]
  /\ \A x \in Hooks : x.pc = "observed" =>
        x \in [pc : {"observed"}, d : Deliveries, user : Users, acct : Accounts, seen : Classified, row : Rows]
  /\ \A x \in Hooks : x.pc = "recorded" => x \in [pc : {"recorded", "ignored", "processed"}, d : Deliveries]
  /\ Quiet.pc = "idle" /\ Quiet \in Hooks
  /\ \A d \in Deliveries, p \in {"recorded", "ignored", "processed"} :
        [pc |-> p, d |-> d] \in Hooks /\ [pc |-> p, d |-> d] # Quiet
  /\ \A x \in Deliverable : x # Quiet /\ [x EXCEPT !.pc = "answered"] \in Deliverable
<1>1. Quiet.pc = "idle" /\ Quiet \in Hooks
  BY DEF Quiet, Hooks
<1>2. \A d \in Deliveries, p \in {"recorded", "ignored", "processed"} :
        [pc |-> p, d |-> d] \in Hooks /\ [pc |-> p, d |-> d] # Quiet
  BY <1>1 DEF Hooks
<1>3. \A x \in Deliverable : x # Quiet /\ [x EXCEPT !.pc = "answered"] \in Deliverable
  BY <1>1 DEF Deliverable
<1> QED BY <1>1, <1>2, <1>3 DEF Hooks

LEMMA SentMoves ==
  ASSUME AroundInv, Kept, UNCHANGED <<hook, wk>>, NEW d \in Deliveries, NEW x \in Deliverable,
         sent' = [sent EXCEPT ![d] = x]
  PROVE  AroundInv'
<1>1. sent' \in [Deliveries -> {Quiet} \cup Deliverable]
  BY DEF AroundInv
<1>2. \A e \in Deliveries : sent[e] # Quiet => sent'[e] # Quiet
  BY HookKinds DEF AroundInv
<1>3. \A h \in Handlers : HookOK(hook[h])'
  <2> SUFFICES ASSUME NEW h \in Handlers, NEW y, y = hook[h] PROVE HookOK(y)'
    OBVIOUS
  <2>1. HookOK(y) /\ y \in Hooks
    BY DEF AroundInv
  <2>2. y # Quiet => sent'[y.d] # Quiet
    BY <1>2, <2>1, HookKinds DEF HookOK
  <2> QED BY <2>1, <2>2, HooksKept
<1>4. \A w \in Workers : WorkerOK(wk[w])'
  <2> SUFFICES ASSUME NEW w \in Workers, NEW y, y = wk[w] PROVE WorkerOK(y)'
    OBVIOUS
  <2>1. WorkerOK(y)
    BY DEF AroundInv
  <2> QED BY <2>1, WorkersKept
<1> QED BY <1>1, <1>3, <1>4 DEF AroundInv

\* The ledger gives the delivery to a handler, or answers it.
LEMMA Records ==
  ASSUME PlanInv, AroundInv, NEW h \in Handlers, NEW d \in Deliveries,
         record_patreon_webhook_delivery(h, d)
  PROVE  PlanInv' /\ AroundInv'
<1>1. PlanInv' /\ Kept /\ UNCHANGED wk
  BY PlanFrame DEF record_patreon_webhook_delivery, linkVars
<1>2. sent[d] \in Deliverable /\ sent[d] # Quiet
  BY HookKinds DEF record_patreon_webhook_delivery, AroundInv
<1>3. CASE /\ hook' = [hook EXCEPT ![h] = [pc |-> "recorded", d |-> d]] /\ UNCHANGED sent
  <2> DEFINE x == [pc |-> "recorded", d |-> d]
  <2>1. x \in Hooks /\ x.d = d /\ x.pc = "recorded"
    BY HookKinds
  <2> HIDE DEF x
  <2>2. HookOK(x)'
    BY <1>2, <1>3, <2>1 DEF HookOK
  <2>3. hook' = [hook EXCEPT ![h] = x]
    BY <1>3 DEF x
  <2> QED BY <1>1, <1>3, <2>1, <2>2, <2>3, HookMoves DEF AroundInv
<1>4. CASE sent' = [sent EXCEPT ![d].pc = "answered"] /\ UNCHANGED hook
  <2> DEFINE x == [sent[d] EXCEPT !.pc = "answered"]
  <2>1. x \in Deliverable
    BY <1>2, HookKinds
  <2>2. sent' = [sent EXCEPT ![d] = x]
    BY <1>4
  <2> HIDE DEF x
  <2> QED BY <1>1, <1>4, <2>1, <2>2, SentMoves
<1> QED BY <1>1, <1>3, <1>4 DEF record_patreon_webhook_delivery

LEMMA PayloadRead ==
  ASSUME HolderInv, PlanInv, AroundInv, NEW h \in Handlers, _process_verified_member_payload(h)
  PROVE  PlanInv' /\ AroundInv'
<1>1. PlanInv' /\ Kept /\ UNCHANGED <<sent, wk>>
  BY PlanFrame DEF _process_verified_member_payload, linkVars
<1> SUFFICES ASSUME NEW d, NEW e, NEW link, d = hook[h].d, e = sent[d], link = ReadLink(e.member)
             PROVE  AroundInv'
  BY <1>1
<1>2. /\ hook[h] \in [pc : {"recorded", "ignored", "processed"}, d : Deliveries]
      /\ d \in Deliveries /\ hook[h] # Quiet
  BY HookKinds DEF _process_verified_member_payload, AroundInv
<1>3. e \in Deliverable /\ sent[d] # Quiet
  BY <1>2 DEF AroundInv, HookOK
<1>4. CASE link = Quiet
  <2> DEFINE x == [hook[h] EXCEPT !.pc = "ignored"]
  <2>1. x = [pc |-> "ignored", d |-> d]
    BY <1>2
  <2>2. x.d = d /\ x.pc = "ignored"
    BY <2>1
  <2>3. x \in Hooks
    BY <1>2, <2>1, HookKinds, Zenon
  <2>4. hook' = [hook EXCEPT ![h] = x]
    BY <1>4 DEF _process_verified_member_payload
  <2> SUFFICES ASSUME NEW y, y = x PROVE AroundInv'
    OBVIOUS
  <2> HIDE DEF x
  <2>5. HookOK(y)'
    BY <1>1, <1>3, <2>2 DEF HookOK
  <2> QED BY <1>1, <2>2, <2>3, <2>4, <2>5, HookMoves DEF AroundInv
<1>5. CASE link # Quiet
  <2> DEFINE c == classify_patreon_entitlement(e.member, e.read, link.cur)
             x == [pc |-> IF _should_resync_instead_of_commit(e, c) THEN "resync" ELSE "commit",
                   d |-> d, user |-> link.user, acct |-> link.acct, seen |-> c]
  <2>1. Owned(link.user, link.acct) /\ link.cur \in EntitlementRows
    BY <1>5, LinkRead
  <2>2. e.read \in Reads \ {"absent"}
    BY <1>3 DEF Deliverable
  <2>3. c \in Classified
    BY <2>1, <2>2, Classifies
  <2>4. hook' = [hook EXCEPT ![h] = x]
    BY <1>5 DEF _process_verified_member_payload
  <2> HIDE DEF c
  <2>5. x.d = d /\ x.user = link.user /\ x.acct = link.acct /\ x.pc \in {"resync", "commit"}
    OBVIOUS
  <2>6. x \in Hooks
    BY <1>2, <2>1, <2>3 DEF Hooks, Owned
  <2> SUFFICES ASSUME NEW y, y = x PROVE AroundInv'
    OBVIOUS
  <2> HIDE DEF x
  <2>7. Owned(y.user, y.acct)'
    BY <1>1, <2>1, <2>5, OwnedKept
  <2>8. HookOK(y)'
    BY <1>1, <1>3, <2>5, <2>7 DEF HookOK
  <2> QED BY <1>1, <2>4, <2>6, <2>8, HookMoves DEF AroundInv
<1> QED BY <1>4, <1>5

\* The row, then the entitlement, of the link the delivery was read with.
LEMMA Persists ==
  ASSUME HolderInv, PlanInv, AroundInv, NEW h \in Handlers, _persist_classification(h)
  PROVE  PlanInv' /\ AroundInv'
<1> SUFFICES ASSUME NEW x, x = hook[h] PROVE PlanInv' /\ AroundInv'
  OBVIOUS
<1>1. x \in Hooks /\ HookOK(x) /\ x # Quiet /\ x.d \in Deliveries
  BY HookKinds DEF _persist_classification, AroundInv
<1>2. Owned(x.user, x.acct) /\ sent[x.d] \in Deliverable
  BY <1>1 DEF _persist_classification, HookOK, AroundInv
<1>3. /\ WriteFrom(x.user, x.acct) /\ UNCHANGED <<truth, proofs, accounts, confirm, sent, wk>>
  BY DEF _persist_classification, linkRest
<1>4. ASSUME NEW r \in Rows, x.pc = "commit",
             sp_patreon_membership_observe(x.user, x.acct, sent[x.d].member, r),
             hook' = [hook EXCEPT ![h] = [pc |-> "observed", d |-> x.d, user |-> x.user,
                                          acct |-> x.acct, seen |-> x.seen, row |-> r]],
             UNCHANGED current
      PROVE  PlanInv' /\ AroundInv'
  <2> DEFINE y == [pc |-> "observed", d |-> x.d, user |-> x.user, acct |-> x.acct,
                   seen |-> x.seen, row |-> r]
  <2>1. x \in [pc : {"resync", "commit"}, d : Deliveries, user : Users, acct : Accounts, seen : Classified]
    BY <1>1, <1>4, HookKinds
  <2>2. sent[x.d].member \in Members
    BY <1>2 DEF Deliverable
  <2>3. RecordTypes' /\ RowsOwned' /\ FreeUnlessLinked' /\ Kept
    BY <1>2, <1>3, <1>4, <2>2, RowStored
  <2>4. ConfirmsOwned'
    BY <1>3 DEF PlanInv, ConfirmsOwned, Owned
  <2>5. y \in Hooks /\ y.d = x.d /\ y.user = x.user /\ y.acct = x.acct
    BY <2>1 DEF Hooks
  <2> HIDE DEF y
  <2>6. HookOK(y)'
    <3>1. sent'[y.d] # Quiet
      BY <1>2, <1>3, <2>5, HookKinds
    <3>2. Owned(y.user, y.acct)'
      BY <1>2, <2>3, <2>5, OwnedKept
    <3> QED BY <3>1, <3>2 DEF HookOK
  <2>7. hook' = [hook EXCEPT ![h] = y]
    BY <1>4 DEF y
  <2>8. AroundInv'
    BY <1>3, <2>3, <2>5, <2>6, <2>7, HookMoves DEF AroundInv
  <2> QED BY <2>3, <2>4, <2>8 DEF PlanInv
<1>5. ASSUME x.pc = "observed", sp_patreon_entitlement_snapshot_upsert(x.user, x.row, x.seen),
             hook' = [hook EXCEPT ![h] = [pc |-> "processed", d |-> x.d]], UNCHANGED rows
      PROVE  PlanInv' /\ AroundInv'
  <2> DEFINE y == [pc |-> "processed", d |-> x.d]
  <2>1. x.row \in Rows /\ x.seen \in Classified
    BY <1>1, <1>5, HookKinds
  <2>2. RecordTypes' /\ RowsOwned' /\ FreeUnlessLinked' /\ Kept
    BY <1>2, <1>3, <1>5, <2>1, PlanStored
  <2>3. ConfirmsOwned'
    BY <1>3 DEF PlanInv, ConfirmsOwned, Owned
  <2>4. y \in Hooks /\ y.d = x.d /\ y.pc = "processed"
    BY <1>1, HookKinds
  <2> HIDE DEF y
  <2>5. HookOK(y)'
    BY <1>2, <1>3, <2>4, HookKinds DEF HookOK
  <2>6. hook' = [hook EXCEPT ![h] = y]
    BY <1>5 DEF y
  <2>7. AroundInv'
    BY <1>3, <2>2, <2>4, <2>5, <2>6, HookMoves DEF AroundInv
  <2> QED BY <2>2, <2>3, <2>7 DEF PlanInv
<1> QED BY <1>4, <1>5 DEF _persist_classification

\* A handler goes on to its end, with or without the resync, and its delivery
\* is answered or left to come again.
LEMMA HookEnds ==
  ASSUME PlanInv, AroundInv, NEW h \in Handlers, UNCHANGED <<linkVars, wk>>,
         NEW d \in Deliveries, hook[h].d = d, hook[h] # Quiet,
         \/ hook' = [hook EXCEPT ![h] = Quiet]
         \/ hook' = [hook EXCEPT ![h] = [pc |-> "processed", d |-> d]],
         sent' = sent \/ sent' = [sent EXCEPT ![d].pc = "answered"]
  PROVE  PlanInv' /\ AroundInv'
<1>1. PlanInv' /\ Kept
  BY PlanFrame DEF linkVars
<1>2. HookOK(hook[h]) /\ sent[d] # Quiet /\ sent[d] \in Deliverable
  BY DEF AroundInv, HookOK
<1>3. [sent[d] EXCEPT !.pc = "answered"] \in Deliverable
  BY <1>2, HookKinds
<1>4. /\ sent' \in [Deliveries -> {Quiet} \cup Deliverable]
      /\ \A e \in Deliveries : sent[e] # Quiet => sent'[e] # Quiet
  <2>1. CASE sent' = sent
    BY <2>1 DEF AroundInv
  <2>2. CASE sent' = [sent EXCEPT ![d].pc = "answered"]
    <3> DEFINE y == [sent[d] EXCEPT !.pc = "answered"]
    <3>1. sent' = [sent EXCEPT ![d] = y] /\ y \in Deliverable /\ y # Quiet
      BY <1>3, <2>2, HookKinds
    <3> HIDE DEF y
    <3> QED BY <3>1 DEF AroundInv
  <2> QED BY <2>1, <2>2
<1>5. CASE hook' = [hook EXCEPT ![h] = Quiet]
  <2>1. HookOK(Quiet)'
    BY HookKinds DEF HookOK
  <2>2. Quiet \in Hooks
    BY HookKinds
  <2> QED BY <1>1, <1>4, <1>5, <2>1, <2>2, HookMoves
<1>6. CASE hook' = [hook EXCEPT ![h] = [pc |-> "processed", d |-> d]]
  <2> DEFINE y == [pc |-> "processed", d |-> d]
  <2>1. y \in Hooks /\ y.d = d /\ y.pc = "processed"
    BY HookKinds
  <2> HIDE DEF y
  <2>2. HookOK(y)'
    BY <1>2, <1>4, <2>1 DEF HookOK
  <2>3. hook' = [hook EXCEPT ![h] = y]
    BY <1>6 DEF y
  <2> QED BY <1>1, <1>4, <2>1, <2>2, <2>3, HookMoves
<1> QED BY <1>5, <1>6

LEMMA HookActs ==
  ASSUME HolderInv, PlanInv, AroundInv, NEW h \in Handlers, HookFails(h) \/ receive_patreon_webhook(h)
  PROVE  PlanInv' /\ AroundInv'
<1> DEFINE d == hook[h].d
<1>0. hook[h] \in Hooks /\ (hook[h] # Quiet => d \in Deliveries) /\ Quiet.pc = "idle"
  BY HookKinds DEF AroundInv
<1>1. CASE HookFails(h)
  <2>1. hook[h] # Quiet /\ UNCHANGED <<linkVars, wk>>
    BY <1>0, <1>1 DEF HookFails
  <2>2. /\ \/ hook' = [hook EXCEPT ![h] = Quiet]
           \/ hook' = [hook EXCEPT ![h] = [pc |-> "processed", d |-> d]]
        /\ sent' = sent \/ sent' = [sent EXCEPT ![d].pc = "answered"]
    BY <1>1 DEF HookFails
  <2> QED BY <1>0, <2>1, <2>2, HookEnds
<1>2. CASE _mark_delivery(h)
  <2>1. hook[h] # Quiet /\ UNCHANGED <<linkVars, wk>>
    BY <1>0, <1>2 DEF _mark_delivery
  <2>2. hook' = [hook EXCEPT ![h] = Quiet] /\ sent' = [sent EXCEPT ![d].pc = "answered"]
    BY <1>2 DEF _mark_delivery
  <2> QED BY <1>0, <2>1, <2>2, HookEnds
<1>3. CASE _enqueue_member_source_of_truth_resync(h)
  <2>1. hook[h] # Quiet /\ UNCHANGED <<linkVars, wk, sent>>
    BY <1>0, <1>3 DEF _enqueue_member_source_of_truth_resync
  <2>2. hook' = [hook EXCEPT ![h] = [pc |-> "processed", d |-> d]]
    BY <1>3 DEF _enqueue_member_source_of_truth_resync
  <2> QED BY <1>0, <2>1, <2>2, HookEnds
<1>4. CASE _process_verified_member_payload(h)
  BY <1>4, PayloadRead
<1>5. CASE _persist_classification(h)
  BY <1>5, Persists
<1>6. ASSUME NEW e \in Deliveries, record_patreon_webhook_delivery(h, e)
      PROVE  PlanInv' /\ AroundInv'
  BY <1>6, Records
<1> QED BY <1>1, <1>2, <1>3, <1>4, <1>5, <1>6 DEF receive_patreon_webhook

\* A worker moves and no more.
LEMMA OnlyWorker ==
  ASSUME PlanInv, AroundInv, NEW w \in Workers, NEW x, UNCHANGED <<linkVars, sent, hook>>,
         wk' = [wk EXCEPT ![w] = x], WorkerOK(x)
  PROVE  PlanInv' /\ AroundInv'
<1>1. PlanInv' /\ Kept
  BY PlanFrame DEF linkVars
<1>2. WorkerOK(x)'
  BY <1>1, WorkersKept
<1>3. DOMAIN wk' = Workers /\ wk'[w] = x /\ \A v \in Workers \ {w} : wk'[v] = wk[v]
  BY DEF AroundInv
<1> QED BY <1>1, <1>2, <1>3, WorkerMoves

\* Between jobs, or at the start of a reading, nothing is about to be written.
LEMMA Blank ==
  /\ \A t : WorkerOK([pc |-> "batch", todo |-> t]) /\ WorkerOK(Rested(t))
  /\ \A t, j, s, a, b : WorkerOK([pc |-> "complete", todo |-> t, job |-> j, status |-> s, again |-> a,
                              asked |-> b])
  /\ \A w, j, k, c : WorkerOK(Scan(w, j, k, c))
  /\ WorkerOK(Idle)
<1>1. /\ \A t : WorkerOK([pc |-> "batch", todo |-> t])
      /\ \A t, j, s, a, b : WorkerOK([pc |-> "complete", todo |-> t, job |-> j, status |-> s, again |-> a,
                              asked |-> b])
      /\ WorkerOK(Idle)
  BY DEF WorkerOK, Idle
<1>2. \A t : WorkerOK(Rested(t))
  BY <1>1 DEF Rested
<1>3. \A w, j, k, c : WorkerOK(Scan(w, j, k, c))
  <2> SUFFICES ASSUME NEW w, NEW j, NEW k, NEW c PROVE WorkerOK(Scan(w, j, k, c))
    OBVIOUS
  <2> DEFINE x == Scan(w, j, k, c)
  <2>1. DOMAIN x = ScanFields /\ x.pc = "scan" /\ x.page = {} /\ x.gone = {}
    BY DEF Scan, ScanFields
  <2> HIDE DEF x
  <2>2. WorkerOK(x)
    BY <2>1 DEF WorkerOK
  <2> QED BY <2>2 DEF x
<1> QED BY <1>1, <1>2, <1>3

\* Work on a reading goes on: the record keeps its fields, and what is known
\* of the ones that matter follows from the step.
LEMMA Goes ==
  ASSUME PlanInv, AroundInv, NEW w \in Workers, UNCHANGED <<linkVars, sent, hook>>,
         NEW x, NEW y, x = wk[w], x.pc \in {"scan", "page", "member", "observed", "gone"},
         wk' = [wk EXCEPT ![w] = y], DOMAIN y = DOMAIN x, y.pc \in {"scan", "page", "gone"},
         y.page \in SUBSET x.page \/ y.page \in SUBSET (Members \X (Reads \ {"absent"})),
         y.gone \in SUBSET x.gone \/ y.gone \in SUBSET {r \in Rows : rows[r] # NoRow}
  PROVE  PlanInv' /\ AroundInv'
<1>1. WorkerOK(x)
  BY DEF AroundInv
<1>2. /\ DOMAIN x = ScanFields /\ x.page \subseteq Members \X (Reads \ {"absent"})
      /\ \A r \in x.gone : r \in Rows /\ rows[r] # NoRow
  BY <1>1 DEF WorkerOK
<1>3. y.page \subseteq Members \X (Reads \ {"absent"})
  BY <1>2
<1>4. \A r \in y.gone : r \in Rows /\ rows[r] # NoRow
  BY <1>2
<1>5. WorkerOK(y)
  BY <1>2, <1>3, <1>4 DEF WorkerOK
<1> QED BY <1>5, OnlyWorker

LEMMA Fetches ==
  ASSUME PlanInv, AroundInv, NEW w \in Workers, FetchCampaign(w) PROVE PlanInv' /\ AroundInv'
<1>1. WorkerOK(wk[w]) /\ wk[w].pc = "scan"
  BY DEF FetchCampaign, AroundInv
<1>2. DOMAIN wk[w] = ScanFields
  BY <1>1 DEF WorkerOK
<1>3. PICK c \in wk[w].left :
        wk' = [wk EXCEPT ![w].pc = "page", ![w].left = @ \ {c}, ![w].camp = c,
                           ![w].seen = IF wk[w].key = All THEN {} ELSE @,
                           ![w].found = FALSE, ![w].failed = FALSE,
                           ![w].page = {<<m, truth[m]>> : m \in {x \in Members :
                                          CampaignOf[x] = c /\ truth[x] # "absent"}}]
  BY DEF FetchCampaign
<1> DEFINE p == {<<m, truth[m]>> : m \in {x \in Members : CampaignOf[x] = c /\ truth[x] # "absent"}}
           y == [wk[w] EXCEPT !.pc = "page", !.left = @ \ {c}, !.camp = c,
                              !.seen = IF wk[w].key = All THEN {} ELSE @,
                              !.found = FALSE, !.failed = FALSE, !.page = p]
<1>4. p \in SUBSET (Members \X (Reads \ {"absent"}))
  BY DEF PlanInv, RecordTypes
<1> HIDE DEF p
<1>5. DOMAIN y = DOMAIN wk[w] /\ y.pc = "page" /\ y.page = p /\ y.gone = wk[w].gone
  BY <1>2 DEF ScanFields
<1>6. wk' = [wk EXCEPT ![w] = y]
  BY <1>3 DEF AroundInv, p
<1> HIDE DEF y
<1>7. UNCHANGED <<linkVars, sent, hook>> /\ y.gone \in SUBSET wk[w].gone
  BY <1>5 DEF FetchCampaign
<1> QED BY <1>1, <1>4, <1>5, <1>6, <1>7, Goes

\* The next member of the page: passed over, or read with its holder.
LEMMA MemberTaken ==
  ASSUME HolderInv, PlanInv, AroundInv, NEW w \in Workers, _persistence_context_for_member(w)
  PROVE  PlanInv' /\ AroundInv'
<1>1. WorkerOK(wk[w]) /\ wk[w].pc = "page" /\ UNCHANGED <<linkVars, sent, hook>>
  BY DEF _persistence_context_for_member, AroundInv
<1>2. DOMAIN wk[w] = ScanFields /\ wk[w].page \subseteq Members \X (Reads \ {"absent"})
  BY <1>1 DEF WorkerOK
<1>3. PICK x \in wk[w].page : \E f, l \in Contexts(x[1]) :
         wk' = [wk EXCEPT ![w] = _process_member_payload(wk[w], x, f, l)]
  BY DEF _persistence_context_for_member
<1>a. PICK first \in Contexts(x[1]), link \in Contexts(x[1]) :
         wk' = [wk EXCEPT ![w] = _process_member_payload(wk[w], x, first, link)]
  BY <1>3
<1> DEFINE c == classify_patreon_entitlement(x[1], x[2], link.cur)
           wanted == Wanted(wk[w].key, x[1], first)
           store == wanted /\ link # Quiet /\ c.complete
           last == wanted /\ wk[w].key[1] = "member"
           ctx == [user |-> link.user, acct |-> link.acct, member |-> x[1], seen |-> c]
           y == [wk[w] EXCEPT !.page = IF last THEN {} ELSE @ \ {x},
                              !.left = IF last THEN {} ELSE @,
                              !.seen = IF wanted THEN @ \cup {x[1]} ELSE @,
                              !.found = @ \/ wanted,
                              !.pc = IF store THEN "member" ELSE "page",
                              !.ctx = IF store THEN ctx ELSE Quiet]
<1>4. x[1] \in Members /\ x[2] \in Reads \ {"absent"}
  BY <1>2
<1>5. link # Quiet => Owned(link.user, link.acct) /\ c \in Classified
  <2> DEFINE read == ReadLink(x[1])
  <2> SUFFICES ASSUME link # Quiet
               PROVE  Owned(link.user, link.acct) /\ link.cur \in EntitlementRows
    BY <1>4, Classifies
  <2>1. read # Quiet /\ link \in {read, [read EXCEPT !.cur = NoEntitlement]}
    BY <1>a DEF Contexts
  <2>2. Owned(read.user, read.acct) /\ read.cur \in EntitlementRows
    BY <2>1, LinkRead
  <2>3. \E a, u, cur : read = [pc |-> "ctx", acct |-> a, user |-> u, member |-> x[1], cur |-> cur]
    BY <2>1 DEF ReadLink
  <2> HIDE DEF read
  <2>4. link.user = read.user /\ link.acct = read.acct /\ link.cur \in {read.cur, NoEntitlement}
    BY <2>1, <2>3
  <2> QED BY <2>2, <2>4, NoEntitlementKnown
<1>6. wk' = [wk EXCEPT ![w] = y]
  BY <1>a DEF _process_member_payload
<1> HIDE DEF c, wanted, last
<1>7. store => link # Quiet
  OBVIOUS
<1>8. ctx.user = link.user /\ ctx.acct = link.acct /\ ctx.member = x[1] /\ ctx.seen = c
  OBVIOUS
<1> HIDE DEF store, ctx
<1>9. /\ DOMAIN y = ScanFields /\ y.gone = wk[w].gone /\ y.page \subseteq wk[w].page
      /\ y.pc = (IF store THEN "member" ELSE "page")
      /\ store => y.ctx = ctx
  BY <1>2 DEF ScanFields
<1> HIDE DEF y
<1>10. WorkerOK(y)
  BY <1>1, <1>2, <1>4, <1>5, <1>7, <1>8, <1>9 DEF WorkerOK
<1> QED BY <1>1, <1>6, <1>10, OnlyWorker

LEMMA MemberWritten ==
  ASSUME HolderInv, PlanInv, AroundInv, NEW w \in Workers, persist_member_classification(w)
  PROVE  PlanInv' /\ AroundInv'
<1> SUFFICES ASSUME NEW x, NEW o, o = wk[w], x = o.ctx PROVE PlanInv' /\ AroundInv'
  OBVIOUS
<1>1. WorkerOK(o) /\ o.pc \in {"member", "observed"}
  BY DEF persist_member_classification, AroundInv
<1>2. /\ DOMAIN o = ScanFields /\ Owned(x.user, x.acct) /\ x.seen \in Classified
      /\ o.page \subseteq Members \X (Reads \ {"absent"})
      /\ \A r \in o.gone : r \in Rows /\ rows[r] # NoRow
  BY <1>1 DEF WorkerOK
<1>3. /\ WriteFrom(x.user, x.acct) /\ UNCHANGED <<truth, proofs, accounts, confirm, sent, hook>>
  BY DEF persist_member_classification, linkRest
<1>4. ASSUME NEW r \in Rows, o.pc = "member",
             sp_patreon_membership_observe(x.user, x.acct, x.member, r),
             wk' = [wk EXCEPT ![w].pc = "observed",
                      ![w].ctx = [user |-> x.user, acct |-> x.acct, seen |-> x.seen, row |-> r]],
             UNCHANGED current
      PROVE  PlanInv' /\ AroundInv'
  <2> DEFINE c == [user |-> x.user, acct |-> x.acct, seen |-> x.seen, row |-> r]
             y == [o EXCEPT !.pc = "observed", !.ctx = c]
  <2>1. x.member \in Members
    BY <1>1, <1>4 DEF WorkerOK
  <2>2. RecordTypes' /\ RowsOwned' /\ FreeUnlessLinked' /\ Kept
    BY <1>2, <1>3, <1>4, <2>1, RowStored
  <2>3. ConfirmsOwned'
    BY <1>3 DEF PlanInv, ConfirmsOwned, Owned
  <2>4. c.user = x.user /\ c.acct = x.acct /\ c.seen = x.seen /\ c.row = r
    OBVIOUS
  <2>5. DOMAIN wk' = Workers /\ wk'[w] = y /\ \A v \in Workers \ {w} : wk'[v] = wk[v]
    BY <1>4 DEF AroundInv
  <2> HIDE DEF c
  <2>6. DOMAIN y = ScanFields /\ y.pc = "observed" /\ y.ctx = c /\ y.page = o.page /\ y.gone = o.gone
    BY <1>2 DEF ScanFields
  <2> SUFFICES ASSUME NEW z, z = y PROVE PlanInv' /\ AroundInv'
    OBVIOUS
  <2> HIDE DEF y
  <2>7. WorkerOK(z)
    BY <1>2, <2>4, <2>6 DEF WorkerOK
  <2>8. AroundInv'
    BY <1>3, <2>2, <2>5, <2>7, WorkersKept, WorkerMoves
  <2> QED BY <2>2, <2>3, <2>8 DEF PlanInv
<1>5. ASSUME o.pc = "observed", sp_patreon_entitlement_snapshot_upsert(x.user, x.row, x.seen),
             wk' = [wk EXCEPT ![w].pc = "page", ![w].ctx = Quiet], UNCHANGED rows
      PROVE  PlanInv' /\ AroundInv'
  <2> DEFINE y == [o EXCEPT !.pc = "page", !.ctx = Quiet]
  <2>1. x.row \in Rows
    BY <1>1, <1>5 DEF WorkerOK
  <2>2. RecordTypes' /\ RowsOwned' /\ FreeUnlessLinked' /\ Kept
    BY <1>2, <1>3, <1>5, <2>1, PlanStored
  <2>3. ConfirmsOwned'
    BY <1>3 DEF PlanInv, ConfirmsOwned, Owned
  <2>4. DOMAIN wk' = Workers /\ wk'[w] = y /\ \A v \in Workers \ {w} : wk'[v] = wk[v]
    BY <1>5 DEF AroundInv
  <2>5. DOMAIN y = ScanFields /\ y.pc = "page" /\ y.page = o.page /\ y.gone = o.gone
    BY <1>2 DEF ScanFields
  <2> SUFFICES ASSUME NEW z, z = y PROVE PlanInv' /\ AroundInv'
    OBVIOUS
  <2> HIDE DEF y
  <2>6. WorkerOK(z)
    BY <1>2, <2>5 DEF WorkerOK
  <2>7. AroundInv'
    BY <1>3, <2>2, <2>4, <2>6, WorkersKept, WorkerMoves
  <2> QED BY <2>2, <2>3, <2>7 DEF PlanInv
<1> QED BY <1>4, <1>5 DEF persist_member_classification

LEMMA CampaignEnds ==
  ASSUME PlanInv, AroundInv, NEW w \in Workers, MemberFails(w) \/ EndOfCampaign(w)
  PROVE  PlanInv' /\ AroundInv'
<1>1. /\ WorkerOK(wk[w]) /\ wk[w].pc \in {"page", "member", "observed"}
      /\ UNCHANGED <<linkVars, sent, hook>>
  BY DEF MemberFails, EndOfCampaign, AroundInv
<1>2. DOMAIN wk[w] = ScanFields
  BY <1>1 DEF WorkerOK
<1>3. CASE MemberFails(w)
  <2> DEFINE y == [wk[w] EXCEPT !.pc = "page", !.failed = TRUE, !.ctx = Quiet]
  <2>1. wk' = [wk EXCEPT ![w] = y]
    BY <1>3 DEF MemberFails, AroundInv
  <2>2. DOMAIN y = DOMAIN wk[w] /\ y.pc = "page" /\ y.page = wk[w].page /\ y.gone = wk[w].gone
    BY <1>2 DEF ScanFields
  <2> HIDE DEF y
  <2>3. y.page \in SUBSET wk[w].page /\ y.gone \in SUBSET wk[w].gone
    BY <2>2
  <2> QED BY <1>1, <2>1, <2>2, <2>3, Goes
<1>4. CASE EndOfCampaign(w)
  <2> DEFINE gone == IF Concludes(w) THEN list_active_patreon_memberships(w) ELSE {}
             pc == IF gone = {} THEN "scan" ELSE "gone"
             y == [wk[w] EXCEPT !.gone = gone, !.pc = pc]
  <2>1. wk' = [wk EXCEPT ![w] = y]
    BY <1>4 DEF EndOfCampaign, AroundInv
  <2>2. gone \in SUBSET {r \in Rows : rows[r] # NoRow}
    BY DEF list_active_patreon_memberships, Live
  <2>3. pc \in {"scan", "gone"}
    OBVIOUS
  <2> HIDE DEF gone, pc
  <2>4. DOMAIN y = DOMAIN wk[w] /\ y.pc = pc /\ y.page = wk[w].page /\ y.gone = gone
    BY <1>2 DEF ScanFields
  <2> HIDE DEF y
  <2>5. y.page \in SUBSET wk[w].page
    BY <2>4
  <2> QED BY <1>1, <2>1, <2>2, <2>3, <2>4, <2>5, Goes
<1> QED BY <1>3, <1>4

\* A row Patreon no longer returned: its user's plan ends, if the row's account
\* is linked still, and the write is remembered if not.
LEMMA Downgrades ==
  ASSUME HolderInv, PlanInv, AroundInv, NEW w \in Workers, _downgrade_absent_members(w)
  PROVE  PlanInv' /\ AroundInv'
<1>1. WorkerOK(wk[w]) /\ wk[w].pc = "gone" /\ UNCHANGED <<truth, proofs, accounts, confirm, rows, sent, hook>>
  BY DEF _downgrade_absent_members, AroundInv, linkRest
<1>2. /\ DOMAIN wk[w] = ScanFields /\ wk[w].page \subseteq Members \X (Reads \ {"absent"})
      /\ \A r \in wk[w].gone : r \in Rows /\ rows[r] # NoRow
  BY <1>1 DEF WorkerOK
<1>3. PICK r \in wk[w].gone :
         /\ wk' = [wk EXCEPT ![w].gone = @ \ {r}, ![w].pc = IF wk[w].gone = {r} THEN "scan" ELSE @]
         /\ persist_absent_membership(r) \/ UNCHANGED <<current, late>>
  BY DEF _downgrade_absent_members
<1> DEFINE pc == IF wk[w].gone = {r} THEN "scan" ELSE wk[w].pc
           y == [wk[w] EXCEPT !.gone = @ \ {r}, !.pc = pc]
<1>4. DOMAIN wk' = Workers /\ wk'[w] = y /\ \A v \in Workers \ {w} : wk'[v] = wk[v]
  BY <1>3 DEF AroundInv
<1>5. pc \in {"scan", "gone"}
  BY <1>1
<1> HIDE DEF pc
<1>6. DOMAIN y = ScanFields /\ y.pc = pc /\ y.page = wk[w].page /\ y.gone \subseteq wk[w].gone
  BY <1>2 DEF ScanFields
<1> SUFFICES ASSUME NEW z, z = y PROVE PlanInv' /\ AroundInv'
  OBVIOUS
<1> HIDE DEF y
<1>7. WorkerOK(z)
  BY <1>2, <1>5, <1>6 DEF WorkerOK
<1>8. PlanInv' /\ Kept
  <2>1. CASE UNCHANGED <<current, late>>
    BY <1>1, <2>1, PlanFrame
  <2>2. CASE persist_absent_membership(r)
    <3> SUFFICES ASSUME NEW u, NEW a, u = rows[r].user, a = rows[r].acct PROVE PlanInv' /\ Kept
      OBVIOUS
    <3>1. Owned(u, a)
      BY <1>2 DEF PlanInv, RowsOwned
    <3>2. _future("former", "free") \in Classified
      BY DEF _future, Classified, EntitlementStatuses
    <3>3. sp_patreon_entitlement_snapshot_upsert(u, r, _future("former", "free")) /\ WriteFrom(u, a)
      BY <2>2 DEF persist_absent_membership
    <3>4. RecordTypes' /\ RowsOwned' /\ FreeUnlessLinked' /\ Kept
      BY <1>1, <1>2, <3>1, <3>2, <3>3, PlanStored
    <3>5. ConfirmsOwned'
      BY <1>1 DEF PlanInv, ConfirmsOwned, Owned
    <3> QED BY <3>4, <3>5 DEF PlanInv
  <2> QED BY <1>3, <2>1, <2>2
<1>9. WorkerOK(z)'
  BY <1>7, <1>8, WorkersKept
<1> QED BY <1>1, <1>4, <1>8, <1>9, WorkerMoves

LEMMA ProviderFails ==
  ASSUME PlanInv, AroundInv, NEW w \in Workers, _handle_provider_failure(w)
  PROVE  PlanInv' /\ AroundInv'
<1>1. WorkerOK(wk[w]) /\ UNCHANGED <<linkVars, sent, hook>>
  BY DEF _handle_provider_failure, AroundInv
<1>2. ASSUME wk[w].pc = "scan", NEW c,
             wk' = [wk EXCEPT ![w].left = @ \ {c}, ![w].bad = TRUE]
      PROVE  PlanInv' /\ AroundInv'
  <2> DEFINE y == [wk[w] EXCEPT !.left = @ \ {c}, !.bad = TRUE]
  <2>1. wk' = [wk EXCEPT ![w] = y]
    BY <1>2 DEF AroundInv
  <2>2. DOMAIN wk[w] = ScanFields
    BY <1>1, <1>2 DEF WorkerOK
  <2>3. DOMAIN y = DOMAIN wk[w] /\ y.pc = "scan" /\ y.page = wk[w].page /\ y.gone = wk[w].gone
    BY <1>2, <2>2 DEF ScanFields
  <2> HIDE DEF y
  <2>4. y.page \in SUBSET wk[w].page /\ y.gone \in SUBSET wk[w].gone
    BY <2>3
  <2> QED BY <1>1, <1>2, <2>1, <2>3, <2>4, Goes
<1>3. ASSUME wk[w].pc = "page",
             wk' = [wk EXCEPT ![w].pc = "scan", ![w].page = {}, ![w].bad = TRUE]
      PROVE  PlanInv' /\ AroundInv'
  <2> DEFINE y == [wk[w] EXCEPT !.pc = "scan", !.page = {}, !.bad = TRUE]
  <2>1. wk' = [wk EXCEPT ![w] = y]
    BY <1>3 DEF AroundInv
  <2>2. DOMAIN wk[w] = ScanFields
    BY <1>1, <1>3 DEF WorkerOK
  <2>3. DOMAIN y = DOMAIN wk[w] /\ y.pc = "scan" /\ y.page = {} /\ y.gone = wk[w].gone
    BY <2>2 DEF ScanFields
  <2> HIDE DEF y
  <2>4. y.page \in SUBSET wk[w].page /\ y.gone \in SUBSET wk[w].gone
    BY <2>3
  <2>5. wk[w].pc \in {"scan", "page", "member", "observed", "gone"}
        /\ y.pc \in {"scan", "page", "gone"}
    BY <1>3, <2>3
  <2> QED BY <1>1, <2>1, <2>3, <2>4, <2>5, Goes
<1>4. ASSUME NEW t, wk' = [wk EXCEPT ![w] = Rested(t)] PROVE PlanInv' /\ AroundInv'
  BY <1>1, <1>4, Blank, OnlyWorker
<1> QED BY <1>2, <1>3, <1>4 DEF _handle_provider_failure

LEMMA WorkerActs ==
  ASSUME HolderInv, PlanInv, AroundInv, NEW w \in Workers,
         PatreonSyncWorker(w) \/ MemberFails(w) \/ _handle_provider_failure(w) \/ WorkerDies(w)
  PROVE  PlanInv' /\ AroundInv'
<1>1. CASE claim_patreon_sync_jobs(w)
  <2>1. UNCHANGED <<linkVars, sent, hook>>
        /\ wk' = [wk EXCEPT ![w] = [pc |-> "batch", todo |-> {j \in JobIds : Due(j)}]]
    BY <1>1 DEF claim_patreon_sync_jobs
  <2> QED BY <2>1, Blank, OnlyWorker
<1>2. CASE run_full_campaign_sweep(w)
  <2>1. UNCHANGED <<linkVars, sent, hook>> /\ wk' = [wk EXCEPT ![w] = Scan(w, None, All, Configured)]
    BY <1>2 DEF run_full_campaign_sweep
  <2> QED BY <2>1, Blank, OnlyWorker
<1>3. ASSUME NEW j \in JobIds, _process_claimed_job(w, j) PROVE PlanInv' /\ AroundInv'
  <2>1. UNCHANGED <<linkVars, sent, hook>>
        /\ wk' = [wk EXCEPT ![w] = Scan(w, j, jobs[j].key, Campaigns(jobs[j].key))]
    BY <1>3 DEF _process_claimed_job
  <2> QED BY <2>1, Blank, OnlyWorker
<1>4. CASE FetchCampaign(w)
  BY <1>4, Fetches
<1>5. CASE _persistence_context_for_member(w)
  BY <1>5, MemberTaken
<1>6. CASE persist_member_classification(w)
  BY <1>6, MemberWritten
<1>7. CASE EndOfCampaign(w) \/ MemberFails(w)
  BY <1>7, CampaignEnds
<1>8. CASE _downgrade_absent_members(w)
  BY <1>8, Downgrades
<1>9. CASE _complete_job(w)
  <2> DEFINE x == wk[w]
             s == IF x.bad THEN decide_retry_backoff(x.job) ELSE "completed"
             again == s = "completed" /\ jobs[x.job].rerun
  <2>1. UNCHANGED <<linkVars, sent, hook>>
        /\ \/ wk' = [wk EXCEPT ![w] = Rested(x.todo)]
           \/ wk' = [wk EXCEPT ![w] = [pc |-> "complete", todo |-> x.todo, job |-> x.job,
                                       status |-> s, again |-> again, asked |-> jobs[x.job].rerun]]
    BY <1>9 DEF _complete_job
  <2> DEFINE y == [pc |-> "complete", todo |-> x.todo, job |-> x.job, status |-> s, again |-> again,
                   asked |-> jobs[x.job].rerun]
  <2> HIDE DEF s, again
  <2>2. WorkerOK(Rested(x.todo)) /\ WorkerOK(y)
    BY Blank, Zenon
  <2>3. wk' = [wk EXCEPT ![w] = Rested(x.todo)] \/ wk' = [wk EXCEPT ![w] = y]
    BY <2>1
  <2> HIDE DEF y
  <2> QED BY <2>1, <2>2, <2>3, OnlyWorker
<1>10. CASE complete_patreon_sync_job(w)
  <2>1. UNCHANGED <<linkVars, sent, hook>>
        /\ wk' = [wk EXCEPT ![w] = Rested(wk[w].todo \ {wk[w].job})]
    BY <1>10 DEF complete_patreon_sync_job
  <2> QED BY <2>1, Blank, OnlyWorker
<1>11. CASE _handle_provider_failure(w)
  BY <1>11, ProviderFails
<1>12. CASE WorkerDies(w)
  <2>1. UNCHANGED <<linkVars, sent, hook>> /\ wk' = [wk EXCEPT ![w] = Idle]
    BY <1>12 DEF WorkerDies
  <2> QED BY <2>1, Blank, OnlyWorker
<1> QED BY <1>1, <1>2, <1>3, <1>4, <1>5, <1>6, <1>7, <1>8, <1>9, <1>10, <1>11, <1>12
         DEF PatreonSyncWorker

LEMMA Emits ==
  ASSUME PlanInv, AroundInv, NEW d \in Deliveries, NEW k \in {"update", "delete"}, Emit(d, k)
  PROVE  PlanInv' /\ AroundInv'
<1>1. PICK m \in Members :
        /\ (k = "delete") <=> (truth[m] = "absent")
        /\ sent' = [sent EXCEPT ![d] = [pc |-> "due", member |-> m, kind |-> k,
                                        read |-> IF k = "delete" THEN "former" ELSE truth[m]]]
        /\ UNCHANGED <<linkVars, hook, wk>>
  BY DEF Emit
<1> DEFINE v == IF k = "delete" THEN "former" ELSE truth[m]
           x == [pc |-> "due", member |-> m, kind |-> k, read |-> v]
<1>2. v \in Reads \ {"absent"}
  BY <1>1 DEF PlanInv, RecordTypes, Reads
<1> HIDE DEF v
<1>3. x \in Deliverable
  BY <1>2 DEF Deliverable
<1>4. sent' = [sent EXCEPT ![d] = x]
  BY <1>1 DEF v
<1> HIDE DEF x
<1>5. PlanInv' /\ Kept
  BY <1>1, PlanFrame DEF linkVars
<1> QED BY <1>1, <1>3, <1>4, <1>5, SentMoves

LEMMA AroundActs ==
  ASSUME HolderInv, PlanInv, AroundInv, Around PROVE PlanInv' /\ AroundInv'
<1>1. ASSUME UNCHANGED <<linkVars, sent, hook, wk>> PROVE PlanInv' /\ AroundInv'
  BY <1>1, PlanFrame, AroundFrame DEF linkVars
<1>2. ASSUME NEW j \in JobIds, LeaseLapses(j) PROVE PlanInv' /\ AroundInv'
  BY <1>1, <1>2 DEF LeaseLapses
<1>3. ASSUME NEW d \in Deliveries, DeliveryAbandoned(d) PROVE PlanInv' /\ AroundInv'
  BY <1>1, <1>3 DEF DeliveryAbandoned
<1>4. ASSUME NEW d \in Deliveries, NEW k \in {"update", "delete"}, Emit(d, k)
      PROVE  PlanInv' /\ AroundInv'
  BY <1>4, Emits
<1>5. ASSUME NEW u \in Users, enqueue_internal_patreon_resync(u) PROVE PlanInv' /\ AroundInv'
  BY <1>1, <1>5 DEF enqueue_internal_patreon_resync
<1>6. ASSUME NEW k \in Keys, enqueue_admin_patreon_resync(k) PROVE PlanInv' /\ AroundInv'
  BY <1>1, <1>6 DEF enqueue_admin_patreon_resync
<1>7. ASSUME NEW h \in Handlers, HookFails(h) \/ receive_patreon_webhook(h)
      PROVE  PlanInv' /\ AroundInv'
  BY <1>7, HookActs
<1>8. ASSUME NEW w \in Workers,
             PatreonSyncWorker(w) \/ MemberFails(w) \/ _handle_provider_failure(w) \/ WorkerDies(w)
      PROVE  PlanInv' /\ AroundInv'
  BY <1>8, WorkerActs
<1> QED BY <1>2, <1>3, <1>4, <1>5, <1>6, <1>7, <1>8 DEF Around

IInvLinks == HolderInv /\ PlanInv /\ AroundInv

LEMMA NextLinks == IInvLinks /\ [SyncNext]_allVars => IInvLinks'
<1> SUFFICES ASSUME HolderInv, PlanInv, AroundInv, [SyncNext]_allVars PROVE PlanInv' /\ AroundInv'
  BY NextHolder DEF IInvLinks
<1>1. CASE Linking /\ UNCHANGED syncVars
  BY <1>1, LinkingPlan, AroundFrame DEF syncVars
<1>2. ASSUME NEW m \in Members, NEW v \in Reads, Changes(m, v) PROVE PlanInv' /\ AroundInv'
  BY <1>2, PatreonMoves, AroundFrame DEF Changes
<1>3. ASSUME NEW h \in Handlers, _initial_entitlement_after_link(h) PROVE PlanInv' /\ AroundInv'
  <2>1. /\ confirm' = [confirm EXCEPT ![h] = Resting] /\ Resting.pc = "idle"
        /\ UNCHANGED <<truth, accounts, rows, current, late>> /\ UNCHANGED <<sent, hook, wk>>
    BY <1>3 DEF _initial_entitlement_after_link, Resting
  <2> QED BY <2>1, OnlyConfirm, AroundFrame
<1>4. CASE Around
  BY <1>4, AroundActs
<1>5. CASE UNCHANGED allVars
  BY <1>5, PlanFrame, AroundFrame DEF allVars, linkVars, syncVars
<1> QED BY <1>1, <1>2, <1>3, <1>4, <1>5, Steps

\* Nobody is told of a paid plan of a user without a Patreon link: not through
\* the confirmations, the webhooks and the worker that store what they read
\* of a link before it ended, but for the writes "late" remembers
\* (unlink_patreon_link resets the entitlement with the link).
THEOREM PaidPlanNeedsLink == SyncSpec => []PaidNeedsLink
<1>1. LinksInit /\ SyncInit => IInvLinks
  BY InitHolder, InitPlan, InitAround DEF IInvLinks
<1>2. IInvLinks /\ [SyncNext]_allVars => IInvLinks'
  BY NextLinks
<1>3. IInvLinks => PaidNeedsLink
  <2> SUFFICES ASSUME IInvLinks, NEW u \in Users, AccountOf(u) = {}, u \notin late
               PROVE  /\ get_internal_patreon_entitlement(u).plan = "free"
                      /\ get_patreon_link_status(u).status \notin {"active", "stale"}
    BY DEF PaidNeedsLink
  <2>1. current[u].plan = "free" /\ current[u].status \notin {"active", "stale"}
    BY DEF IInvLinks, PlanInv, FreeUnlessLinked
  <2> QED BY <2>1 DEF get_internal_patreon_entitlement, get_patreon_link_status,
             db_entitlement_row_to_safe_entitlement
<1> QED BY <1>1, <1>2, <1>3, PTL DEF SyncSpec

-----------------------------------------------------------------------------
(* The queue of resyncs (PatreonSync): a request that was accepted is not    *)
(* dropped, while no lease ends under a worker at work.                      *)

JobFields == {"st", "key", "n", "rerun", "begun", "lapsed"}
ScanSteps == {"scan", "page", "member", "observed", "gone"}
AtWork(x) == x.pc \in ScanSteps \cup {"complete"}
Outcomes == {"completed", "retry", "failed"}

JobsOK == /\ DOMAIN jobs = JobIds
          /\ \A j \in JobIds : DOMAIN jobs[j] = JobFields /\ jobs[j].rerun \in BOOLEAN

\* A worker reads campaigns for a job of its batch or, with no job, for a sweep.
\* A success runs the job again if a rerun was asked for when it looked.
WorkOK(x) ==
    /\ x.pc \in {"idle", "batch", "complete"} \cup ScanSteps /\ x.todo \subseteq JobIds
    /\ x.pc = "idle" => x.todo = {}
    /\ x.pc \in ScanSteps => /\ DOMAIN x = ScanFields
                             /\ x.job \in x.todo \/ (x.job = None /\ x.key = All)
    /\ x.pc = "complete" => /\ x.job \in x.todo /\ x.status \in Outcomes
                            /\ x.again \in BOOLEAN /\ x.asked \in BOOLEAN
                            /\ x.again = TRUE => x.status = "completed"
                            /\ x.status = "completed" /\ x.asked = TRUE => x.again = TRUE
WorkersOK == DOMAIN wk = Workers /\ \A w \in Workers : WorkOK(wk[w])

\* A batch is leased to its worker alone; the job at work was begun.
BatchesApart ==
    /\ \A w \in Workers : \A j \in wk[w].todo : jobs[j].st = "running" /\ ~jobs[j].lapsed
    /\ \A v, w \in Workers : v # w => wk[v].todo \cap wk[w].todo = {}
    /\ \A w \in Workers : AtWork(wk[w]) /\ wk[w].job \in wk[w].todo => jobs[wk[w].job].begun

\* The job stands for a request of its key: it is still to start, or to run again.
StandsFor(j, k) ==
    /\ jobs[j].st \in Active /\ jobs[j].key = k
    /\ jobs[j].st = "running" /\ jobs[j].begun => jobs[j].rerun

QueueInv == /\ JobsOK /\ WorkersOK
            /\ ~overran => BatchesApart /\ \A k \in owed : \E j \in JobIds : StandsFor(j, k)

LEMMA QueueInit == SyncInit => QueueInv
<1> SUFFICES ASSUME SyncInit PROVE QueueInv
  OBVIOUS
<1>1. JobsOK
  BY DEF SyncInit, JobsOK, NoJob, JobFields
<1>2. WorkOK(Idle) /\ Idle.pc = "idle" /\ Idle.todo = {}
  BY DEF WorkOK, Idle, ScanSteps
<1>3. WorkersOK /\ BatchesApart
  BY <1>2 DEF SyncInit, WorkersOK, BatchesApart, AtWork, ScanSteps
<1> QED BY <1>1, <1>3 DEF SyncInit, QueueInv

LEMMA QueueFrame == ASSUME QueueInv, UNCHANGED <<jobs, wk, owed, overran>> PROVE QueueInv'
<1>1. \A j, k : StandsFor(j, k)' <=> StandsFor(j, k)
  BY DEF StandsFor
<1> QED BY <1>1 DEF QueueInv, JobsOK, WorkersOK, BatchesApart

\* A request joins the active job of its key, or is a new job.
LEMMA Requests ==
  ASSUME QueueInv, NEW k, enqueue_patreon_sync_job(k), UNCHANGED <<wk, overran>>
  PROVE  QueueInv'
<1>1. owed' = owed \cup {k} /\ WorkersOK'
  BY DEF enqueue_patreon_sync_job, QueueInv, WorkersOK
<1>2. CASE JobsOf(k) # {}
  <2>1. jobs' = [j \in JobIds |-> IF j \in JobsOf(k) /\ jobs[j].st = "running"
                                  THEN [jobs[j] EXCEPT !.rerun = TRUE] ELSE jobs[j]]
    BY <1>2 DEF enqueue_patreon_sync_job
  <2>2. \A j \in JobIds :
           /\ DOMAIN jobs'[j] = JobFields /\ jobs'[j].rerun \in BOOLEAN
           /\ jobs'[j].st = jobs[j].st /\ jobs'[j].key = jobs[j].key
           /\ jobs'[j].begun = jobs[j].begun /\ jobs'[j].lapsed = jobs[j].lapsed
           /\ jobs[j].rerun => jobs'[j].rerun
           /\ j \in JobsOf(k) /\ jobs[j].st = "running" => jobs'[j].rerun
    <3> SUFFICES ASSUME NEW j \in JobIds
                 PROVE /\ DOMAIN jobs'[j] = JobFields /\ jobs'[j].rerun \in BOOLEAN
                       /\ jobs'[j].st = jobs[j].st /\ jobs'[j].key = jobs[j].key
                       /\ jobs'[j].begun = jobs[j].begun /\ jobs'[j].lapsed = jobs[j].lapsed
                       /\ jobs[j].rerun => jobs'[j].rerun
                       /\ j \in JobsOf(k) /\ jobs[j].st = "running" => jobs'[j].rerun
      OBVIOUS
    <3>1. DOMAIN jobs[j] = JobFields /\ jobs[j].rerun \in BOOLEAN
      BY DEF QueueInv, JobsOK
    <3>2. CASE j \in JobsOf(k) /\ jobs[j].st = "running"
      BY <2>1, <3>1, <3>2 DEF JobFields
    <3>3. CASE ~(j \in JobsOf(k) /\ jobs[j].st = "running")
      BY <2>1, <3>1, <3>3
    <3> QED BY <3>2, <3>3
  <2>3. JobsOK'
    BY <2>1, <2>2 DEF JobsOK
  <2>4. ~overran => BatchesApart'
    BY <2>2 DEF QueueInv, WorkersOK, WorkOK, BatchesApart
  <2>5. \A i \in JobIds : \A l : StandsFor(i, l) => StandsFor(i, l)'
    BY <2>2 DEF StandsFor
  <2>6. PICK j \in JobIds : j \in JobsOf(k)
    BY <1>2 DEF JobsOf
  <2>7. StandsFor(j, k)'
    BY <2>2, <2>6 DEF StandsFor, JobsOf
  <2> QED BY <1>1, <2>3, <2>4, <2>5, <2>6, <2>7 DEF QueueInv
<1>3. CASE JobsOf(k) = {}
  <2>1. PICK j \in NewJobs : jobs' = [jobs EXCEPT ![j] = [NoJob EXCEPT !.st = "pending", !.key = k]]
    BY <1>3 DEF enqueue_patreon_sync_job
  <2>2. /\ j \in JobIds /\ jobs[j].st \in {"none", "completed", "failed"}
        /\ \A w \in Workers : j \notin wk[w].todo
    BY <2>1 DEF NewJobs
  <2> DEFINE y == [NoJob EXCEPT !.st = "pending", !.key = k]
  <2>3. /\ DOMAIN y = JobFields /\ y.st = "pending" /\ y.key = k /\ y.rerun = FALSE
    BY DEF NoJob, JobFields
  <2>4. DOMAIN jobs' = JobIds /\ jobs'[j] = y /\ \A i \in JobIds \ {j} : jobs'[i] = jobs[i]
    BY <2>1, <2>2 DEF QueueInv, JobsOK
  <2> HIDE DEF y
  <2>5. JobsOK'
    BY <2>3, <2>4 DEF QueueInv, JobsOK
  <2>6. ~overran => BatchesApart'
    BY <2>2, <2>4 DEF QueueInv, WorkersOK, WorkOK, BatchesApart
  <2>7. \A i \in JobIds : \A l : StandsFor(i, l) => StandsFor(i, l)'
    BY <2>2, <2>4 DEF StandsFor, Active, Waiting
  <2>8. StandsFor(j, k)'
    BY <2>3, <2>4 DEF StandsFor, Active, Waiting
  <2> QED BY <1>1, <2>2, <2>5, <2>6, <2>7, <2>8 DEF QueueInv
<1> QED BY <1>2, <1>3

\* A worker goes on with what it has, or gives it up.
LEMMA WorkGoesOn ==
  ASSUME QueueInv, NEW w \in Workers, NEW x, wk' = [wk EXCEPT ![w] = x],
         UNCHANGED <<jobs, owed, overran>>, WorkOK(x), x.todo \subseteq wk[w].todo,
         AtWork(x) /\ x.job \in x.todo => AtWork(wk[w]) /\ x.job = wk[w].job
  PROVE  QueueInv'
<1>1. DOMAIN wk' = Workers /\ wk'[w] = x /\ \A v \in Workers \ {w} : wk'[v] = wk[v]
  BY DEF QueueInv, WorkersOK
<1>2. WorkersOK'
  BY <1>1 DEF QueueInv, WorkersOK
<1>3. \A j, k : StandsFor(j, k)' <=> StandsFor(j, k)
  BY DEF StandsFor
<1>4. \A v \in Workers : wk'[v].todo \subseteq wk[v].todo
  BY <1>1
<1>5. BatchesApart => BatchesApart'
  <2> SUFFICES ASSUME BatchesApart PROVE BatchesApart'
    OBVIOUS
  <2>1. \A v \in Workers : AtWork(wk'[v]) /\ wk'[v].job \in wk'[v].todo => jobs[wk'[v].job].begun
    <3> SUFFICES ASSUME NEW v \in Workers, AtWork(wk'[v]), wk'[v].job \in wk'[v].todo
                 PROVE  jobs[wk'[v].job].begun
      OBVIOUS
    <3>1. AtWork(wk[v]) /\ wk[v].job = wk'[v].job /\ wk[v].job \in wk[v].todo
      BY <1>1, <1>4
    <3> QED BY <3>1 DEF BatchesApart
  <2>2. \A v \in Workers : AtWork(wk[v])' <=> AtWork(wk'[v])
    BY DEF AtWork
  <2> QED BY <1>4, <2>1, <2>2 DEF BatchesApart
<1> QED BY <1>2, <1>3, <1>5 DEF QueueInv, JobsOK

LEMMA AfterJob == \A t \in SUBSET JobIds : WorkOK(Rested(t)) /\ Rested(t).todo = t /\ ~AtWork(Rested(t))
<1> SUFFICES ASSUME NEW t \in SUBSET JobIds
             PROVE  WorkOK(Rested(t)) /\ Rested(t).todo = t /\ ~AtWork(Rested(t))
  OBVIOUS
<1>1. CASE t = {}
  BY <1>1 DEF Rested, Idle, WorkOK, AtWork, ScanSteps
<1>2. CASE t # {}
  <2> DEFINE x == [pc |-> "batch", todo |-> t]
  <2>1. x.pc = "batch" /\ x.todo = t /\ Rested(t) = x
    BY <1>2 DEF Rested
  <2> HIDE DEF x
  <2> QED BY <2>1 DEF WorkOK, AtWork, ScanSteps
<1> QED BY <1>1, <1>2

LEMMA StartsReading ==
  ASSUME NEW w \in Workers, NEW j, NEW k, NEW c, wk[w].todo \subseteq JobIds,
         j \in wk[w].todo \/ (j = None /\ k = All)
  PROVE  /\ WorkOK(Scan(w, j, k, c)) /\ Scan(w, j, k, c).todo = wk[w].todo
         /\ Scan(w, j, k, c).job = j
<1> DEFINE x == Scan(w, j, k, c)
<1>1. /\ DOMAIN x = ScanFields /\ x.pc = "scan" /\ x.todo = wk[w].todo
      /\ x.job = j /\ x.key = k
  BY DEF Scan, ScanFields
<1> HIDE DEF x
<1>2. WorkOK(x)
  BY <1>1 DEF WorkOK, ScanSteps
<1> QED BY <1>1, <1>2 DEF x

\* Jobs that wait, or whose lease has lapsed, are in nobody's batch.
LEMMA Claims == ASSUME QueueInv, NEW w \in Workers, claim_patreon_sync_jobs(w) PROVE QueueInv'
<1> DEFINE taken == {j \in JobIds : Due(j)}
           x == [pc |-> "batch", todo |-> taken]
           out == {jobs[j].key : j \in {i \in JobIds : Exhausted(i)}}
           run(r, n) == [r EXCEPT !.st = "running", !.n = n, !.begun = FALSE, !.lapsed = FALSE]
           row(j) == IF Exhausted(j) THEN [jobs[j] EXCEPT !.st = "failed"]
                     ELSE IF j \in taken THEN run(jobs[j], jobs[j].n + 1) ELSE jobs[j]
<1>1. wk' = [wk EXCEPT ![w] = x] /\ overran' = overran
  BY Zenon DEF claim_patreon_sync_jobs
<1>2. jobs' = [j \in JobIds |-> row(j)]
  BY Zenon DEF claim_patreon_sync_jobs
<1>3. owed' = owed \ out
  BY Zenon DEF claim_patreon_sync_jobs
<1>4. \A j \in JobIds : Exhausted(j) => jobs[j].key \in out
  OBVIOUS
<1>8. \A j \in JobIds : /\ Exhausted(j) => jobs[j].st = "running" /\ jobs[j].lapsed
                        /\ Due(j) => jobs[j].st # "running" \/ jobs[j].lapsed
                        /\ Due(j) => ~Exhausted(j)
  BY DEF Exhausted, Due, Waiting
<1>9. /\ x.pc = "batch" /\ x.todo = taken /\ WorkOK(x) /\ ~AtWork(x)
  BY DEF WorkOK, AtWork, ScanSteps
<1>10. taken \subseteq JobIds /\ \A j \in JobIds : j \in taken <=> Due(j)
  OBVIOUS
<1>5. \A r, n : DOMAIN r = JobFields =>
         /\ DOMAIN run(r, n) = JobFields /\ run(r, n).rerun = r.rerun /\ run(r, n).key = r.key
         /\ run(r, n).st = "running" /\ run(r, n).begun = FALSE /\ run(r, n).lapsed = FALSE
  BY DEF JobFields
<1> HIDE DEF run
<1>6. \A j \in JobIds :
         /\ Exhausted(j) => row(j) = [jobs[j] EXCEPT !.st = "failed"]
         /\ ~Exhausted(j) /\ j \in taken => \E n : row(j) = run(jobs[j], n)
         /\ ~Exhausted(j) /\ j \notin taken => row(j) = jobs[j]
  BY Zenon
<1> HIDE DEF row
<1>7. DOMAIN jobs' = JobIds /\ \A j \in JobIds : jobs'[j] = row(j)
  BY <1>2
<1> HIDE DEF taken, x, out
<1>11. DOMAIN wk' = Workers /\ wk'[w] = x /\ \A v \in Workers \ {w} : wk'[v] = wk[v]
  BY <1>1 DEF QueueInv, WorkersOK
<1>12. WorkersOK'
  BY <1>9, <1>11 DEF QueueInv, WorkersOK
<1>13. \A j \in JobIds :
         /\ DOMAIN jobs'[j] = JobFields /\ jobs'[j].rerun = jobs[j].rerun
         /\ jobs'[j].key = jobs[j].key
         /\ j \in taken => jobs'[j].st = "running" /\ ~jobs'[j].lapsed /\ ~jobs'[j].begun
         /\ j \notin taken /\ ~Exhausted(j) => jobs'[j] = jobs[j]
  <2> SUFFICES ASSUME NEW j \in JobIds
               PROVE  /\ DOMAIN jobs'[j] = JobFields /\ jobs'[j].rerun = jobs[j].rerun
                      /\ jobs'[j].key = jobs[j].key
                      /\ j \in taken => jobs'[j].st = "running" /\ ~jobs'[j].lapsed /\ ~jobs'[j].begun
                      /\ j \notin taken /\ ~Exhausted(j) => jobs'[j] = jobs[j]
    OBVIOUS
  <2>1. DOMAIN jobs[j] = JobFields
    BY DEF QueueInv, JobsOK
  <2>2. CASE Exhausted(j)
    <3>1. jobs'[j] = [jobs[j] EXCEPT !.st = "failed"] /\ j \notin taken
      BY <1>6, <1>7, <1>8, <1>10, <2>2
    <3> QED BY <2>1, <2>2, <3>1 DEF JobFields
  <2>3. CASE ~Exhausted(j) /\ j \in taken
    <3>1. PICK n : jobs'[j] = run(jobs[j], n)
      BY <1>6, <1>7, <2>3
    <3> QED BY <1>5, <2>1, <2>3, <3>1
  <2>4. CASE ~Exhausted(j) /\ j \notin taken
    BY <1>6, <1>7, <2>1, <2>4
  <2> QED BY <2>2, <2>3, <2>4
<1>14. JobsOK'
  BY <1>7, <1>13 DEF QueueInv, JobsOK
<1>15. ASSUME BatchesApart PROVE BatchesApart'
  <2>1. \A v \in Workers : \A j \in wk[v].todo :
           j \in JobIds /\ j \notin taken /\ jobs'[j] = jobs[j]
    BY <1>8, <1>10, <1>13, <1>15 DEF BatchesApart, QueueInv, WorkersOK, WorkOK
  <2>2. \A v \in Workers : \A j \in wk'[v].todo : jobs'[j].st = "running" /\ ~jobs'[j].lapsed
    BY <1>9, <1>10, <1>11, <1>13, <1>15, <2>1 DEF BatchesApart
  <2>3. \A u, v \in Workers : u # v => wk'[u].todo \cap wk'[v].todo = {}
    BY <1>9, <1>11, <1>15, <2>1 DEF BatchesApart
  <2>4. \A v \in Workers : AtWork(wk'[v]) /\ wk'[v].job \in wk'[v].todo => jobs'[wk'[v].job].begun
    BY <1>9, <1>11, <1>15, <2>1 DEF BatchesApart
  <2>5. \A v \in Workers : AtWork(wk[v])' <=> AtWork(wk'[v])
    BY DEF AtWork
  <2> QED BY <2>2, <2>3, <2>4, <2>5 DEF BatchesApart
<1>16. \A k \in owed' : \A j \in JobIds : StandsFor(j, k) => StandsFor(j, k)'
  <2> SUFFICES ASSUME NEW k \in owed', NEW j \in JobIds, StandsFor(j, k) PROVE StandsFor(j, k)'
    OBVIOUS
  <2>1. ~Exhausted(j)
    BY <1>3, <1>4 DEF StandsFor
  <2> QED BY <1>13, <2>1 DEF StandsFor, Active, Waiting
<1>17. owed' \subseteq owed
  BY <1>3
<1> QED BY <1>1, <1>12, <1>14, <1>15, <1>16, <1>17 DEF QueueInv

\* The job is begun, and the requests made so far are served by it.
LEMMA Begins ==
  ASSUME QueueInv, NEW w \in Workers, NEW j \in JobIds, _process_claimed_job(w, j)
  PROVE  QueueInv'
<1>1. /\ wk[w].pc = "batch" /\ j \in wk[w].todo /\ overran' = overran
      /\ wk' = [wk EXCEPT ![w] = Scan(w, j, jobs[j].key, Campaigns(jobs[j].key))]
      /\ jobs' = [jobs EXCEPT ![j].begun = TRUE]
      /\ owed' = owed \ {jobs[j].key}
  BY DEF _process_claimed_job
<1>2. wk[w].todo \subseteq JobIds
  BY DEF QueueInv, WorkersOK, WorkOK
<1> DEFINE x == Scan(w, j, jobs[j].key, Campaigns(jobs[j].key))
           y == [jobs[j] EXCEPT !.begun = TRUE]
<1>3. WorkOK(x) /\ x.todo = wk[w].todo /\ x.job = j
  BY <1>1, <1>2, StartsReading
<1>4. DOMAIN jobs[j] = JobFields /\ jobs[j].rerun \in BOOLEAN
  BY DEF QueueInv, JobsOK
<1>5. /\ DOMAIN y = JobFields /\ y.rerun = jobs[j].rerun /\ y.st = jobs[j].st
      /\ y.lapsed = jobs[j].lapsed /\ y.begun = TRUE
  BY <1>4 DEF JobFields
<1>6. /\ DOMAIN wk' = Workers /\ wk'[w] = x /\ \A v \in Workers \ {w} : wk'[v] = wk[v]
      /\ DOMAIN jobs' = JobIds /\ jobs'[j] = y /\ \A i \in JobIds \ {j} : jobs'[i] = jobs[i]
  BY <1>1 DEF QueueInv, WorkersOK, JobsOK
<1> HIDE DEF x, y
<1>7. WorkersOK' /\ JobsOK'
  BY <1>3, <1>4, <1>5, <1>6 DEF QueueInv, WorkersOK, JobsOK
<1>8. ASSUME BatchesApart PROVE BatchesApart'
  <2>1. \A v \in Workers : wk'[v].todo = wk[v].todo /\ wk'[v].todo \subseteq JobIds
    BY <1>3, <1>6 DEF QueueInv, WorkersOK, WorkOK
  <2>2. \A i \in JobIds : jobs'[i].st = jobs[i].st /\ jobs'[i].lapsed = jobs[i].lapsed
                          /\ (jobs[i].begun => jobs'[i].begun)
    BY <1>5, <1>6
  <2>3. \A v \in Workers : AtWork(wk'[v]) /\ wk'[v].job \in wk'[v].todo => jobs'[wk'[v].job].begun
    <3> SUFFICES ASSUME NEW v \in Workers, AtWork(wk'[v]), wk'[v].job \in wk'[v].todo
                 PROVE  jobs'[wk'[v].job].begun
      OBVIOUS
    <3>1. CASE v = w
      BY <1>3, <1>5, <1>6, <3>1
    <3>2. CASE v # w
      BY <1>6, <1>8, <2>1, <2>2, <3>2 DEF BatchesApart
    <3> QED BY <3>1, <3>2
  <2>4. \A v \in Workers : AtWork(wk[v])' <=> AtWork(wk'[v])
    BY DEF AtWork
  <2> QED BY <1>8, <2>1, <2>2, <2>3, <2>4 DEF BatchesApart
<1>9. \A k \in owed' : \A i \in JobIds : StandsFor(i, k) => StandsFor(i, k)'
  <2> SUFFICES ASSUME NEW k \in owed', NEW i \in JobIds, StandsFor(i, k) PROVE StandsFor(i, k)'
    OBVIOUS
  <2>1. i # j
    BY <1>1 DEF StandsFor
  <2> QED BY <1>6, <2>1 DEF StandsFor
<1> QED BY <1>1, <1>7, <1>8, <1>9 DEF QueueInv

\* A job is finalized: a success that was asked to run again does.
LEMMA JobEnds ==
  ASSUME QueueInv, NEW w \in Workers, NEW j, NEW s \in Outcomes,
         NEW again \in BOOLEAN, NEW asked \in BOOLEAN,
         AtWork(wk[w]), wk[w].job = j, j \in wk[w].todo, overran' = overran,
         UpdateJob(j, s, again, asked), wk' = [wk EXCEPT ![w] = Rested(wk[w].todo \ {j})],
         again = TRUE => s = "completed", s = "completed" /\ asked = TRUE => again = TRUE
  PROVE  QueueInv'
<1>1. j \in JobIds /\ wk[w].todo \ {j} \in SUBSET JobIds
  BY DEF QueueInv, WorkersOK, WorkOK
<1> DEFINE x == Rested(wk[w].todo \ {j})
           y == [jobs[j] EXCEPT !.st = IF again THEN "pending" ELSE s,
                                !.n = IF again THEN 0 ELSE @,
                                !.rerun = IF again THEN FALSE ELSE @, !.begun = FALSE]
<1>2. WorkOK(x) /\ x.todo = wk[w].todo \ {j} /\ ~AtWork(x)
  BY <1>1, AfterJob
<1>3. DOMAIN jobs[j] = JobFields /\ jobs[j].rerun \in BOOLEAN
  BY <1>1 DEF QueueInv, JobsOK
<1>4. /\ DOMAIN y = JobFields /\ y.rerun \in BOOLEAN /\ y.key = jobs[j].key /\ ~y.begun
      /\ y.st = IF again THEN "pending" ELSE s
  BY <1>3 DEF JobFields
<1>5. jobs' = [jobs EXCEPT ![j] = y]
  BY <1>1 DEF UpdateJob, QueueInv, JobsOK
<1>6. /\ DOMAIN wk' = Workers /\ wk'[w] = x /\ \A v \in Workers \ {w} : wk'[v] = wk[v]
      /\ DOMAIN jobs' = JobIds /\ jobs'[j] = y /\ \A i \in JobIds \ {j} : jobs'[i] = jobs[i]
  BY <1>1, <1>5 DEF QueueInv, WorkersOK, JobsOK
<1>7. owed' = IF s = "failed" \/ (s = "completed" /\ jobs[j].rerun /\ ~asked)
              THEN owed \ {jobs[j].key} ELSE owed
  BY DEF UpdateJob
<1> HIDE DEF x, y
<1>8. WorkersOK' /\ JobsOK'
  BY <1>2, <1>4, <1>6 DEF QueueInv, WorkersOK, JobsOK
<1>9. ASSUME BatchesApart PROVE BatchesApart'
  <2>1. \A v \in Workers : wk'[v].todo \subseteq wk[v].todo \ {j}
    BY <1>2, <1>6, <1>9 DEF BatchesApart
  <2>2. \A v \in Workers : AtWork(wk'[v]) => v # w /\ wk'[v] = wk[v]
    BY <1>2, <1>6
  <2>3. \A v \in Workers : AtWork(wk[v])' <=> AtWork(wk'[v])
    BY DEF AtWork
  <2>4. \A v \in Workers : wk[v].todo \subseteq JobIds
    BY DEF QueueInv, WorkersOK, WorkOK
  <2>5. \A v \in Workers : AtWork(wk'[v]) /\ wk'[v].job \in wk'[v].todo => jobs'[wk'[v].job].begun
    <3> SUFFICES ASSUME NEW v \in Workers, AtWork(wk'[v]), wk'[v].job \in wk'[v].todo
                 PROVE  jobs'[wk'[v].job].begun
      OBVIOUS
    <3>1. wk'[v] = wk[v] /\ wk[v].job \in wk[v].todo \ {j}
      BY <2>1, <2>2
    <3> QED BY <1>6, <1>9, <2>4, <3>1 DEF BatchesApart
  <2>6. \A v \in Workers : \A i \in wk'[v].todo : jobs'[i].st = "running" /\ ~jobs'[i].lapsed
    <3> SUFFICES ASSUME NEW v \in Workers, NEW i \in wk'[v].todo
                 PROVE  jobs'[i].st = "running" /\ ~jobs'[i].lapsed
      OBVIOUS
    <3>1. i \in wk[v].todo /\ i \in JobIds \ {j}
      BY <2>1, <2>4
    <3>2. jobs'[i] = jobs[i]
      BY <1>6, <3>1
    <3> QED BY <1>9, <3>1, <3>2 DEF BatchesApart
  <2>7. \A u, v \in Workers : u # v => wk'[u].todo \cap wk'[v].todo = {}
    BY <1>9, <2>1 DEF BatchesApart
  <2> QED BY <2>3, <2>5, <2>6, <2>7 DEF BatchesApart
<1>10. ASSUME BatchesApart, NEW k \in owed', NEW i \in JobIds, StandsFor(i, k)
       PROVE  StandsFor(i, k)'
  <2>1. CASE i # j
    BY <1>6, <1>10, <2>1 DEF StandsFor
  <2>2. CASE i = j
    <3>1. jobs[j].st = "running" /\ jobs[j].begun
      BY <1>10 DEF BatchesApart
    <3>2. jobs[j].rerun /\ jobs[j].key = k
      BY <1>10, <2>2, <3>1 DEF StandsFor
    <3>3. s # "failed" /\ (s = "completed" => again)
      BY <1>7, <1>10, <3>2
    <3>4. y.st \in Waiting
      BY <1>4, <3>3 DEF Outcomes, Waiting
    <3> QED BY <1>4, <1>6, <2>2, <3>2, <3>4 DEF StandsFor, Active, Waiting
  <2> QED BY <2>1, <2>2
<1>11. owed' \subseteq owed
  BY <1>7
<1> QED BY <1>8, <1>9, <1>10, <1>11 DEF QueueInv

\* A lease ends: of a job in nobody's hands, or a batch has been overrun.
LEMMA Lapses == ASSUME QueueInv, NEW j \in JobIds, LeaseLapses(j) PROVE QueueInv'
<1>1. /\ jobs' = [jobs EXCEPT ![j].lapsed = TRUE] /\ UNCHANGED <<wk, owed>>
      /\ overran' = (overran \/ \E w \in Workers : j \in wk[w].todo)
  BY DEF LeaseLapses
<1> DEFINE y == [jobs[j] EXCEPT !.lapsed = TRUE]
<1>2. DOMAIN jobs[j] = JobFields /\ jobs[j].rerun \in BOOLEAN
  BY DEF QueueInv, JobsOK
<1>3. /\ DOMAIN y = JobFields /\ y.rerun = jobs[j].rerun /\ y.st = jobs[j].st
      /\ y.key = jobs[j].key /\ y.begun = jobs[j].begun
  BY <1>2 DEF JobFields
<1>4. DOMAIN jobs' = JobIds /\ jobs'[j] = y /\ \A i \in JobIds \ {j} : jobs'[i] = jobs[i]
  BY <1>1 DEF QueueInv, JobsOK
<1> HIDE DEF y
<1>5. WorkersOK' /\ JobsOK'
  BY <1>1, <1>2, <1>3, <1>4 DEF QueueInv, WorkersOK, JobsOK
<1>6. \A i \in JobIds : \A k : StandsFor(i, k) => StandsFor(i, k)'
  BY <1>3, <1>4 DEF StandsFor
<1>7. ASSUME BatchesApart, \A w \in Workers : j \notin wk[w].todo PROVE BatchesApart'
  <2>1. \A w \in Workers : \A i \in wk[w].todo : jobs'[i] = jobs[i]
    BY <1>4, <1>7 DEF QueueInv, WorkersOK, WorkOK
  <2> QED BY <1>1, <1>7, <2>1 DEF BatchesApart, AtWork
<1> QED BY <1>1, <1>5, <1>6, <1>7 DEF QueueInv

\* A reading goes on, for the same job.
LEMMA ReadingGoesOn ==
  ASSUME QueueInv, NEW w \in Workers, NEW x, NEW y, x = wk[w], x.pc \in ScanSteps,
         wk' = [wk EXCEPT ![w] = y], DOMAIN y = DOMAIN x, y.pc \in ScanSteps,
         y.todo = x.todo, y.job = x.job, y.key = x.key, UNCHANGED <<jobs, owed, overran>>
  PROVE  QueueInv'
<1>1. WorkOK(x)
  BY DEF QueueInv, WorkersOK
<1>2. WorkOK(y) /\ AtWork(x)
  BY <1>1 DEF WorkOK, AtWork, ScanSteps
<1> QED BY <1>2, WorkGoesOn

LEMMA ReadingKnown ==
  ASSUME QueueInv, NEW w \in Workers, wk[w].pc \in ScanSteps
  PROVE  /\ DOMAIN wk = Workers /\ DOMAIN wk[w] = ScanFields
         /\ wk[w].job \in wk[w].todo \/ (wk[w].job = None /\ wk[w].key = All)
         /\ wk[w].todo \subseteq JobIds /\ AtWork(wk[w])
  BY DEF QueueInv, WorkersOK, WorkOK, AtWork

LEMMA FetchQueue == ASSUME QueueInv, NEW w \in Workers, FetchCampaign(w) PROVE QueueInv'
<1>1. UNCHANGED <<jobs, owed, overran>> /\ wk[w].pc = "scan"
  BY DEF FetchCampaign
<1>2. wk[w].pc \in ScanSteps
  BY <1>1 DEF ScanSteps
<1>3. DOMAIN wk = Workers /\ DOMAIN wk[w] = ScanFields
  BY <1>2, ReadingKnown
<1>4. PICK c \in wk[w].left :
        wk' = [wk EXCEPT ![w].pc = "page", ![w].left = @ \ {c}, ![w].camp = c,
                           ![w].seen = IF wk[w].key = All THEN {} ELSE @,
                           ![w].found = FALSE, ![w].failed = FALSE,
                           ![w].page = {<<m, truth[m]>> : m \in {x \in Members :
                                          CampaignOf[x] = c /\ truth[x] # "absent"}}]
  BY DEF FetchCampaign
<1> DEFINE p == {<<m, truth[m]>> : m \in {x \in Members : CampaignOf[x] = c /\ truth[x] # "absent"}}
           y == [wk[w] EXCEPT !.pc = "page", !.left = @ \ {c}, !.camp = c,
                              !.seen = IF wk[w].key = All THEN {} ELSE @,
                              !.found = FALSE, !.failed = FALSE, !.page = p]
<1> HIDE DEF p
<1>5. /\ DOMAIN y = DOMAIN wk[w] /\ y.pc = "page" /\ y.todo = wk[w].todo
      /\ y.job = wk[w].job /\ y.key = wk[w].key
  BY <1>3 DEF ScanFields
<1>6. wk' = [wk EXCEPT ![w] = y]
  BY <1>3, <1>4 DEF p
<1> HIDE DEF y
<1>7. y.pc \in ScanSteps
  BY <1>5 DEF ScanSteps
<1> QED BY <1>1, <1>2, <1>5, <1>6, <1>7, ReadingGoesOn

LEMMA MemberQueue ==
  ASSUME QueueInv, NEW w \in Workers, _persistence_context_for_member(w)
  PROVE  QueueInv'
<1>1. UNCHANGED <<jobs, owed, overran>> /\ wk[w].pc = "page"
  BY DEF _persistence_context_for_member
<1>2. wk[w].pc \in ScanSteps
  BY <1>1 DEF ScanSteps
<1>3. DOMAIN wk = Workers /\ DOMAIN wk[w] = ScanFields
  BY <1>2, ReadingKnown
<1>4. PICK x, first, link :
         wk' = [wk EXCEPT ![w] = _process_member_payload(wk[w], x, first, link)]
  BY DEF _persistence_context_for_member
<1> DEFINE c == classify_patreon_entitlement(x[1], x[2], link.cur)
           wanted == Wanted(wk[w].key, x[1], first)
           store == wanted /\ link # Quiet /\ c.complete
           last == wanted /\ wk[w].key[1] = "member"
           ctx == [user |-> link.user, acct |-> link.acct, member |-> x[1], seen |-> c]
           y == [wk[w] EXCEPT !.page = IF last THEN {} ELSE @ \ {x},
                              !.left = IF last THEN {} ELSE @,
                              !.seen = IF wanted THEN @ \cup {x[1]} ELSE @,
                              !.found = @ \/ wanted,
                              !.pc = IF store THEN "member" ELSE "page",
                              !.ctx = IF store THEN ctx ELSE Quiet]
<1>5. wk' = [wk EXCEPT ![w] = y]
  BY <1>4 DEF _process_member_payload
<1> HIDE DEF c, wanted, last, ctx, store
<1>6. /\ DOMAIN y = DOMAIN wk[w] /\ y.pc = (IF store THEN "member" ELSE "page")
      /\ y.todo = wk[w].todo /\ y.job = wk[w].job /\ y.key = wk[w].key
  BY <1>3 DEF ScanFields
<1> HIDE DEF y
<1>7. y.pc \in ScanSteps
  BY <1>6 DEF ScanSteps
<1> QED BY <1>1, <1>2, <1>5, <1>6, <1>7, ReadingGoesOn

LEMMA Writes ==
  ASSUME QueueInv, NEW w \in Workers,
         \/ persist_member_classification(w) \/ EndOfCampaign(w) \/ MemberFails(w)
         \/ _downgrade_absent_members(w)
  PROVE  QueueInv'
<1>1. UNCHANGED <<jobs, owed, overran>> /\ wk[w].pc \in ScanSteps
  BY DEF persist_member_classification, EndOfCampaign, MemberFails, _downgrade_absent_members, ScanSteps
<1>2. DOMAIN wk = Workers /\ DOMAIN wk[w] = ScanFields
  BY <1>1, ReadingKnown
<1>3. ASSUME NEW p \in ScanSteps, NEW c,
             wk' = [wk EXCEPT ![w].pc = p, ![w].ctx = c]
      PROVE  QueueInv'
  <2> DEFINE y == [wk[w] EXCEPT !.pc = p, !.ctx = c]
  <2>1. wk' = [wk EXCEPT ![w] = y]
    BY <1>2, <1>3
  <2>2. /\ DOMAIN y = DOMAIN wk[w] /\ y.pc = p /\ y.todo = wk[w].todo
        /\ y.job = wk[w].job /\ y.key = wk[w].key
    BY <1>2 DEF ScanFields
  <2> HIDE DEF y
  <2> QED BY <1>1, <2>1, <2>2, ReadingGoesOn
<1>4. ASSUME NEW p \in ScanSteps, NEW g,
             wk' = [wk EXCEPT ![w].gone = g, ![w].pc = p]
      PROVE  QueueInv'
  <2> DEFINE y == [wk[w] EXCEPT !.gone = g, !.pc = p]
  <2>1. wk' = [wk EXCEPT ![w] = y]
    BY <1>2, <1>4
  <2>2. /\ DOMAIN y = DOMAIN wk[w] /\ y.pc = p /\ y.todo = wk[w].todo
        /\ y.job = wk[w].job /\ y.key = wk[w].key
    BY <1>2 DEF ScanFields
  <2> HIDE DEF y
  <2> QED BY <1>1, <2>1, <2>2, ReadingGoesOn
<1>5. CASE MemberFails(w)
  <2> DEFINE y == [wk[w] EXCEPT !.pc = "page", !.failed = TRUE, !.ctx = Quiet]
  <2>1. wk' = [wk EXCEPT ![w] = y]
    BY <1>2, <1>5 DEF MemberFails
  <2>2. /\ DOMAIN y = DOMAIN wk[w] /\ y.pc = "page" /\ y.todo = wk[w].todo
        /\ y.job = wk[w].job /\ y.key = wk[w].key
    BY <1>2 DEF ScanFields
  <2> HIDE DEF y
  <2>3. y.pc \in ScanSteps
    BY <2>2 DEF ScanSteps
  <2> QED BY <1>1, <2>1, <2>2, <2>3, ReadingGoesOn
<1>6. CASE persist_member_classification(w)
  <2>1. \/ \E c : wk' = [wk EXCEPT ![w].pc = "observed", ![w].ctx = c]
        \/ wk' = [wk EXCEPT ![w].pc = "page", ![w].ctx = Quiet]
    BY <1>6, Zenon DEF persist_member_classification
  <2>2. "observed" \in ScanSteps /\ "page" \in ScanSteps
    BY DEF ScanSteps
  <2> QED BY <1>3, <2>1, <2>2
<1>7. CASE EndOfCampaign(w)
  <2>1. \E g : wk' = [wk EXCEPT ![w].gone = g, ![w].pc = IF g = {} THEN "scan" ELSE "gone"]
    BY <1>7, Zenon DEF EndOfCampaign
  <2>2. PICK g : wk' = [wk EXCEPT ![w].gone = g, ![w].pc = IF g = {} THEN "scan" ELSE "gone"]
    BY <2>1
  <2>3. (IF g = {} THEN "scan" ELSE "gone") \in ScanSteps
    BY DEF ScanSteps
  <2> QED BY <1>4, <2>2, <2>3
<1>8. CASE _downgrade_absent_members(w)
  <2>1. wk[w].pc = "gone"
    BY <1>8 DEF _downgrade_absent_members
  <2>2. PICK r \in wk[w].gone :
           wk' = [wk EXCEPT ![w].gone = @ \ {r}, ![w].pc = IF wk[w].gone = {r} THEN "scan" ELSE @]
    BY <1>8 DEF _downgrade_absent_members
  <2> DEFINE g == wk[w].gone \ {r}
             p == IF wk[w].gone = {r} THEN "scan" ELSE wk[w].pc
  <2>3. wk' = [wk EXCEPT ![w].gone = g, ![w].pc = p]
    BY <2>2
  <2>4. p \in ScanSteps
    BY <2>1 DEF ScanSteps
  <2> HIDE DEF g, p
  <2> QED BY <1>4, <2>3, <2>4
<1> QED BY <1>5, <1>6, <1>7, <1>8

\* The end of a reading, and readings that break off.
LEMMA Finishes ==
  ASSUME QueueInv, NEW w \in Workers,
         \/ run_full_campaign_sweep(w) \/ WorkerDies(w)
         \/ _complete_job(w) \/ complete_patreon_sync_job(w) \/ _handle_provider_failure(w)
  PROVE  QueueInv'
<1>0. /\ DOMAIN wk = Workers /\ WorkOK(wk[w]) /\ wk[w].todo \subseteq JobIds
  BY DEF QueueInv, WorkersOK, WorkOK
<1>1. CASE run_full_campaign_sweep(w)
  <2> DEFINE x == Scan(w, None, All, Configured)
  <2>1. wk[w].pc = "idle" /\ wk' = [wk EXCEPT ![w] = x] /\ UNCHANGED <<jobs, owed, overran>>
    BY <1>1 DEF run_full_campaign_sweep
  <2>2. wk[w].todo = {}
    BY <1>0, <2>1 DEF WorkOK
  <2>3. WorkOK(x) /\ x.todo = wk[w].todo
    BY <1>0, StartsReading
  <2> HIDE DEF x
  <2> QED BY <2>1, <2>2, <2>3, WorkGoesOn
<1>2. CASE WorkerDies(w)
  <2>1. wk' = [wk EXCEPT ![w] = Idle] /\ UNCHANGED <<jobs, owed, overran>>
    BY <1>2 DEF WorkerDies
  <2>2. WorkOK(Idle) /\ Idle.todo = {}
    BY DEF WorkOK, Idle, ScanSteps
  <2> QED BY <2>1, <2>2, WorkGoesOn
<1>3. CASE _complete_job(w)
  <2> DEFINE j == wk[w].job
             s == IF wk[w].bad THEN decide_retry_backoff(j) ELSE "completed"
             x == [pc |-> "complete", todo |-> wk[w].todo, job |-> j, status |-> s,
                   again |-> s = "completed" /\ jobs[j].rerun, asked |-> jobs[j].rerun]
  <2>1. wk[w].pc = "scan" /\ UNCHANGED <<jobs, owed, overran>>
    BY <1>3 DEF _complete_job
  <2>2. wk' = [wk EXCEPT ![w] = IF j = None THEN Rested(wk[w].todo) ELSE x]
    BY <1>3, Zenon DEF _complete_job
  <2>3. AtWork(wk[w]) /\ (j \in wk[w].todo \/ j = None)
    BY <1>0, <2>1 DEF WorkOK, AtWork, ScanSteps
  <2>4. s \in Outcomes
    BY DEF decide_retry_backoff, Outcomes
  <2> HIDE DEF s
  <2>5. /\ x.pc = "complete" /\ x.todo = wk[w].todo /\ x.job = j /\ x.status = s
        /\ x.again = (s = "completed" /\ jobs[j].rerun) /\ x.asked = jobs[j].rerun
    OBVIOUS
  <2> HIDE DEF x
  <2>6. CASE j = None
    <3>1. wk' = [wk EXCEPT ![w] = Rested(wk[w].todo)]
      BY <2>2, <2>6
    <3> QED BY <1>0, <2>1, <3>1, AfterJob, WorkGoesOn
  <2>7. CASE j # None
    <3>1. wk' = [wk EXCEPT ![w] = x]
      BY <2>2, <2>7
    <3>2. jobs[j].rerun \in BOOLEAN
      BY <1>0, <2>3, <2>7 DEF QueueInv, JobsOK
    <3>3. WorkOK(x)
      BY <1>0, <2>3, <2>4, <2>5, <2>7, <3>2 DEF WorkOK, ScanSteps
    <3> QED BY <2>1, <2>3, <2>5, <3>1, <3>3, WorkGoesOn
  <2> QED BY <2>6, <2>7
<1>4. CASE complete_patreon_sync_job(w)
  <2>1. /\ wk[w].pc = "complete" /\ overran' = overran
        /\ UpdateJob(wk[w].job, wk[w].status, wk[w].again, wk[w].asked)
        /\ wk' = [wk EXCEPT ![w] = Rested(wk[w].todo \ {wk[w].job})]
    BY <1>4 DEF complete_patreon_sync_job
  <2>2. /\ wk[w].job \in wk[w].todo /\ wk[w].status \in Outcomes
        /\ wk[w].again \in BOOLEAN /\ wk[w].asked \in BOOLEAN
        /\ wk[w].again = TRUE => wk[w].status = "completed"
        /\ wk[w].status = "completed" /\ wk[w].asked = TRUE => wk[w].again = TRUE
        /\ AtWork(wk[w])
    BY <1>0, <2>1 DEF WorkOK, AtWork
  <2> QED BY <2>1, <2>2, JobEnds
<1>5. CASE _handle_provider_failure(w)
  <2>1. wk[w].pc \in ScanSteps /\ overran' = overran
    BY <1>5 DEF _handle_provider_failure, ScanSteps
  <2>2. DOMAIN wk[w] = ScanFields /\ AtWork(wk[w])
        /\ (wk[w].job \in wk[w].todo \/ wk[w].key = All)
    BY <2>1, ReadingKnown
  <2>3. CASE /\ wk[w].key # All
             /\ UpdateJob(wk[w].job, decide_retry_backoff(wk[w].job), FALSE, FALSE)
             /\ wk' = [wk EXCEPT ![w] = Rested(wk[w].todo \ {wk[w].job})]
    <3>1. decide_retry_backoff(wk[w].job) \in {"retry", "failed"}
      BY DEF decide_retry_backoff
    <3>2. decide_retry_backoff(wk[w].job) \in Outcomes /\ decide_retry_backoff(wk[w].job) # "completed"
      BY <3>1 DEF Outcomes
    <3> QED BY <2>1, <2>2, <2>3, <3>2, JobEnds
  <2>4. ASSUME UNCHANGED <<jobs, owed>>, wk[w].pc = "scan", NEW c,
               wk' = [wk EXCEPT ![w].left = @ \ {c}, ![w].bad = TRUE]
        PROVE  QueueInv'
    <3> DEFINE y == [wk[w] EXCEPT !.left = @ \ {c}, !.bad = TRUE]
    <3>1. wk' = [wk EXCEPT ![w] = y]
      BY <1>0, <2>4
    <3>2. /\ DOMAIN y = DOMAIN wk[w] /\ y.pc = wk[w].pc /\ y.todo = wk[w].todo
          /\ y.job = wk[w].job /\ y.key = wk[w].key
      BY <2>2 DEF ScanFields
    <3> HIDE DEF y
    <3> QED BY <2>1, <2>4, <3>1, <3>2, ReadingGoesOn
  <2>5. ASSUME UNCHANGED <<jobs, owed>>,
               wk' = [wk EXCEPT ![w].pc = "scan", ![w].page = {}, ![w].bad = TRUE]
        PROVE  QueueInv'
    <3> DEFINE y == [wk[w] EXCEPT !.pc = "scan", !.page = {}, !.bad = TRUE]
    <3>1. wk' = [wk EXCEPT ![w] = y]
      BY <1>0, <2>5
    <3>2. /\ DOMAIN y = DOMAIN wk[w] /\ y.pc = "scan" /\ y.todo = wk[w].todo
          /\ y.job = wk[w].job /\ y.key = wk[w].key
      BY <2>2 DEF ScanFields
    <3> HIDE DEF y
    <3>3. y.pc \in ScanSteps
      BY <3>2 DEF ScanSteps
    <3> QED BY <2>1, <2>5, <3>1, <3>2, <3>3, ReadingGoesOn
  <2> QED BY <1>5, <2>3, <2>4, <2>5 DEF _handle_provider_failure
<1> QED BY <1>1, <1>2, <1>3, <1>4, <1>5

\* What asks for a resync, and what has nothing to do with the queue.
LEMMA HooksQueue ==
  ASSUME QueueInv, NEW h \in Handlers,
         HookFails(h) \/ receive_patreon_webhook(h) \/ _initial_entitlement_after_link(h)
  PROVE  QueueInv'
<1>1. CASE HookFails(h)
  <2>1. UNCHANGED <<wk, overran>>
        /\ \/ UNCHANGED <<jobs, owed>>
           \/ enqueue_patreon_sync_job(<<"member", None, sent[hook[h].d].member>>)
    BY <1>1 DEF HookFails
  <2> QED BY <2>1, QueueFrame, Requests
<1>2. CASE _initial_entitlement_after_link(h)
  <2>1. UNCHANGED <<wk, overran>> /\ enqueue_patreon_sync_job(<<"user", confirm[h].user, None>>)
    BY <1>2 DEF _initial_entitlement_after_link
  <2> QED BY <2>1, Requests
<1>3. CASE _enqueue_member_source_of_truth_resync(h)
  <2>1. UNCHANGED <<wk, overran>>
        /\ enqueue_patreon_sync_job(<<"member", hook[h].user, sent[hook[h].d].member>>)
    BY <1>3 DEF _enqueue_member_source_of_truth_resync
  <2> QED BY <2>1, Requests
<1>4. CASE \/ \E d \in Deliveries : record_patreon_webhook_delivery(h, d)
           \/ _process_verified_member_payload(h) \/ _persist_classification(h) \/ _mark_delivery(h)
  <2>1. UNCHANGED <<jobs, wk, owed, overran>>
    BY <1>4 DEF record_patreon_webhook_delivery, _process_verified_member_payload,
                _persist_classification, _mark_delivery
  <2> QED BY <2>1, QueueFrame
<1> QED BY <1>1, <1>2, <1>3, <1>4 DEF receive_patreon_webhook

LEMMA NextQueue == QueueInv /\ [SyncNext]_allVars => QueueInv'
<1> SUFFICES ASSUME QueueInv, [SyncNext]_allVars PROVE QueueInv'
  OBVIOUS
<1>1. ASSUME UNCHANGED syncVars \/ UNCHANGED allVars
             \/ \E m \in Members, v \in Reads : Changes(m, v)
      PROVE  QueueInv'
  <2>1. UNCHANGED <<jobs, wk, owed, overran>>
    BY <1>1 DEF syncVars, allVars, Changes
  <2> QED BY <2>1, QueueFrame
<1>2. ASSUME NEW h \in Handlers,
             HookFails(h) \/ receive_patreon_webhook(h) \/ _initial_entitlement_after_link(h)
      PROVE  QueueInv'
  BY <1>2, HooksQueue
<1>3. ASSUME NEW u \in Users, enqueue_internal_patreon_resync(u) PROVE QueueInv'
  BY <1>3, Requests DEF enqueue_internal_patreon_resync
<1>4. ASSUME NEW k \in Keys, enqueue_admin_patreon_resync(k) PROVE QueueInv'
  BY <1>4, Requests DEF enqueue_admin_patreon_resync
<1>5. ASSUME NEW j \in JobIds, LeaseLapses(j) PROVE QueueInv'
  BY <1>5, Lapses
<1>6. ASSUME NEW w \in Workers,
             MemberFails(w) \/ _handle_provider_failure(w) \/ WorkerDies(w) \/ PatreonSyncWorker(w)
      PROVE  QueueInv'
  BY <1>6, Claims, Begins, FetchQueue, MemberQueue, Writes, Finishes DEF PatreonSyncWorker
<1>7. \/ UNCHANGED syncVars \/ UNCHANGED allVars
      \/ \E m \in Members, v \in Reads : Changes(m, v)
      \/ \E h \in Handlers : _initial_entitlement_after_link(h)
      \/ Around
  BY Steps
<1>8. ASSUME NEW d \in Deliveries, DeliveryAbandoned(d) \/ \E k \in {"update", "delete"} : Emit(d, k)
      PROVE  QueueInv'
  <2>1. UNCHANGED <<jobs, wk, owed, overran>>
    BY <1>8 DEF DeliveryAbandoned, Emit
  <2> QED BY <2>1, QueueFrame
<1>9. CASE Around
  BY <1>2, <1>3, <1>4, <1>5, <1>6, <1>8, <1>9 DEF Around
<1> QED BY <1>1, <1>2, <1>7, <1>9

\* However requests, claims, failures, retries, lapsed leases and dying workers
\* overlap, an accepted resync is still served by a run that starts after it, or
\* its job failed for good, or it fell between the two statements of a
\* completion; unless a lease ended under a worker that went on
\* (sp_patreon_sync_job_enqueue marks the running job, and
\* sp_patreon_sync_job_complete puts it back).
THEOREM RequestsAreKept == SyncSpec => []RequestKept
<1>1. QueueInv => RequestKept
  <2> SUFFICES ASSUME QueueInv, ~overran, NEW k \in owed
               PROVE  \E j \in JobsOf(k) : jobs[j].st = "running" /\ jobs[j].begun => jobs[j].rerun
    BY DEF RequestKept
  <2>1. PICK j \in JobIds : StandsFor(j, k)
    BY DEF QueueInv
  <2> QED BY <2>1 DEF StandsFor, JobsOf
<1> QED BY <1>1, QueueInit, NextQueue, PTL DEF SyncSpec
=============================================================================
