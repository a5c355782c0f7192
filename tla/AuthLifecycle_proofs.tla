------------------------ MODULE AuthLifecycle_proofs ------------------------
(***************************************************************************)
(* Proofs about AuthLifecycle, for any number of users, families, handlers *)
(* and token generations.  IInv is what the rest stands on: types, who     *)
(* writes which family, what a WATCH guarantees.  On top of it AgeInv says *)
(* what a handler's copies tell of the pairs minted since, SweepInv what a *)
(* sweep has still to do, and ClearInv where the sessions of a family are. *)
(***************************************************************************)
EXTENDS AuthLifecycle, TLAPS

-----------------------------------------------------------------------------
(* The inductive invariant. *)

\* Labels at which a sign-in has not yet entered its pair in an index.
Early == {"issue_session", "issue_family", "issue_token", "issue_anchor",
          "issue_sessions_index"}

\* Labels at which it has written the family.
Stored == {"issue_token", "issue_anchor", "issue_sessions_index"}

\* Labels of rotate_refresh_family and classify_refresh_token_state.
InRefresh == {"ref_family", "ref_token", "ref_revoked", "ref_stale",
              "ref_session", "ref_anchor", "ref_user", "ref_context",
              "ref_watch", "ref_exec", "cls_family", "cls_token",
              "cls_revoked", "cls_decide"}

\* Labels at which the rotation has found an active family in its copy.
PastCheck == {"ref_revoked", "ref_session", "ref_anchor", "ref_user",
              "ref_context", "ref_watch", "ref_exec"}

InAccess == {"acc_session", "acc_family", "acc_revoked", "acc_user",
             "acc_context", "accepted"}

\* Labels at which item[p] names the family being revoked.
InRevoke == {"rev_family", "rev_mark", "rev_tomb", "rev_anchor", "rev_index",
             "rev_sessions", "exc_drop", "exc_remove", "prj_drop"}

\* What a handler's local variables hold at each label.
ControlAt(p) ==
    /\ pc[p] # "idle" => req[p].user \in User
    /\ pc[p] \in Early \cup {"issue_families_index", "rotated"}
                 \cup InRefresh \cup InAccess
         => req[p].fam \in Family /\ req[p].gen \in Gen
    /\ pc[p] = "rotated" => child[p] \in Gen
    /\ pc[p] \in InRevoke => item[p] \in Family
    /\ pc[p] \in InRefresh => req[p].op \in {"refresh", "switch"}
    /\ pc[p] \in InRefresh \cup InAccess /\ req[p].op \in {"refresh", "switch"}
         => req[p].gen < MaxGen
    /\ pc[p] \in PastCheck => copy[p].status = "active"
    /\ pc[p] \in Early => req[p].op = "login"

\* Handler p is writing the keys of family f, which nothing refers to yet.
Writing(p, f) == pc[p] \in Early /\ req[p].fam = f

\* Family f was stored, and its sign-in is past the first index or gone.
Public(f) == /\ next[f] # 0
             /\ family[f].status = "active" \/ f \in ended
             /\ \A p \in Proc : ~Writing(p, f)

\* A sign-in that is writing a family is its only writer, and its first.
OneWriter ==
    \A p \in Proc, f \in Family : Writing(p, f) =>
      /\ next[f] = 1 /\ req[p].gen = 1
      /\ pc[p] \in Stored => family[f].status = "active"
      /\ \A q \in Proc : Writing(q, f) => q = p

\* Tokens, indexes and history only name public families ...
Referred ==
    /\ \A k \in held : Public(k[1])
    /\ \A u \in User : \A k \in usess[u] : Public(k[1])
    /\ \A u \in User : \A f \in ufam[u] : Public(f)
    /\ \A f \in ended : Public(f)
    /\ \A r \in rotated : Public(r[1])

\* ... and so do the local variables of a handler that is not writing one.
RefersAt(p) ==
    /\ \A k \in sess[p] : Public(k[1])
    /\ \A f \in fams[p] : Public(f)
    /\ item[p] \in Family => Public(item[p])
    /\ pc[p] \notin Early /\ req[p].fam \in Family => Public(req[p].fam)

\* A rotation whose WATCHed keys are untouched still sees what it checked.
Watched ==
    \A p \in Proc : pc[p] = "ref_exec" /\ p \notin dirty =>
      /\ family[req[p].fam].status = "active"
      /\ family[req[p].fam].cur = req[p].gen
      /\ token[Me(p)].st = "current"

\* The current pair of an active family is the last one minted.
LastIsCurrent ==
    \A f \in Family : family[f].status = "active" => family[f].cur = next[f]

\* Only families that were minted have a record, and one that is not active is
\* known to have ended.
Minted == \A f \in Family : family[f].status # "missing" =>
            next[f] # 0 /\ (family[f].status = "active" \/ f \in ended)

\* An exchanged token is never current again.
Spent ==
    \A r \in rotated : /\ r[2] < r[3] /\ r[3] <= next[r[1]]
                       /\ token[<<r[1], r[2]>>].st # "current"

\* A late request gets no further than the first look at the family.
LateAt(p) ==
    req[p].late =>
      /\ req[p].fam \in ended
      /\ \/ pc[p] \in {"acc_session", "acc_family", "ref_family"}
         \/ pc[p] = "ref_token" /\ copy[p].status # "active"

HandlerInv == \A p \in Proc : ControlAt(p) /\ RefersAt(p) /\ LateAt(p)

StoreInv == LastIsCurrent /\ Minted /\ Spent /\ RotatedOnce /\ EndedIsFinal

IInv == TypeOK /\ HandlerInv /\ OneWriter /\ Referred /\ Watched /\ StoreInv

-----------------------------------------------------------------------------
(* A step of one handler that changes no record an invariant is about. *)

\* Handlers other than p are where they were.
Others(p) ==
    \A q \in Proc \ {p} :
      /\ pc'[q] = pc[q] /\ req'[q] = req[q] /\ copy'[q] = copy[q]
      /\ child'[q] = child[q] /\ item'[q] = item[q]
      /\ sess'[q] = sess[q] /\ fams'[q] = fams[q]

\* No key changes.
Quiet == UNCHANGED <<redis, db, jwt, aged, dirty, hist>>

\* Sessions, anchors and columns may change, and indexes may shrink.
Mild ==
    /\ UNCHANGED <<family, token, next, rotated, ended>>
    /\ dirty \subseteq dirty'
    /\ held' \subseteq held
    /\ \A u \in User : usess'[u] \subseteq usess[u] /\ ufam'[u] \subseteq ufam[u]

\* The families p refers to after the step were public before it.
RefersNext(p) ==
    /\ \A k \in sess'[p] : Public(k[1])
    /\ \A f \in fams'[p] : Public(f)
    /\ item'[p] \in Family => Public(item'[p])
    /\ pc'[p] \notin Early /\ req'[p].fam \in Family => Public(req'[p].fam)

\* A step that changes no key is mild.
LEMMA QuietIsMild ==
  ASSUME IInv, Quiet
  PROVE  Mild /\ StoreOK'
BY DEF IInv, TypeOK, StoreOK, Quiet, Mild, redis, db, jwt, hist

\* A public family stays public: a sign-in only mints families that were not.
LEMMA PublicStays ==
  ASSUME IInv, NEW p \in Proc, Others(p), next' = next, ended \subseteq ended',
         \A f \in Family : family[f].status = "active" =>
                            family'[f].status = "active" \/ f \in ended',
         pc'[p] \notin Early \/ (pc[p] \in Early /\ req'[p] = req[p])
  PROVE  \A f \in Family : Public(f) => Public(f)'
BY DEF Public, Writing, Others

\* What the other handlers rely on survives the step of p.
LEMMA OtherHandlers ==
  ASSUME IInv, NEW p \in Proc, Others(p), ended \subseteq ended',
         \A f \in Family : Public(f) => Public(f)',
         ControlAt(p)', RefersAt(p)', LateAt(p)'
  PROVE  HandlerInv'
<1> SUFFICES ASSUME NEW q \in Proc, q # p
             PROVE  (ControlAt(q) /\ RefersAt(q) /\ LateAt(q))'
  BY DEF HandlerInv
<1>1. ControlAt(q)'
  BY DEF IInv, HandlerInv, ControlAt, Others
<1>2. RefersAt(q)'
  BY DEF IInv, HandlerInv, RefersAt, Others, TypeOK, LocalOK, Pair
<1>3. LateAt(q)'
  BY DEF IInv, HandlerInv, LateAt, Others
<1> QED BY <1>1, <1>2, <1>3

\* What is left to show of a step of p that is mild is about p itself.
LEMMA MildInv ==
  ASSUME IInv, NEW p \in Proc, Others(p), Mild, LocalOK', StoreOK',
         \/ pc'[p] \notin Early
         \/ /\ pc[p] \in Early /\ req'[p] = req[p]
            /\ pc'[p] \in Stored => pc[p] \in Stored,
         pc'[p] # "ref_exec",
         ControlAt(p)', RefersNext(p), LateAt(p)'
  PROVE  IInv'
<1> USE DEF IInv, Mild
<1>1. \A f \in Family : Public(f) => Public(f)'
  BY PublicStays
<1>2. StoreInv'
  BY DEF StoreInv, LastIsCurrent, Minted, Spent, RotatedOnce, EndedIsFinal
<1>3. Referred'
  BY <1>1 DEF TypeOK, StoreOK, Referred, Pair
<1>4. OneWriter'
  <2>1. \A q \in Proc, f \in Family :
          Writing(q, f)' => /\ Writing(q, f) /\ req'[q] = req[q]
                            /\ pc'[q] \in Stored => pc[q] \in Stored
    BY DEF Writing, Others
  <2> QED BY <2>1 DEF OneWriter
<1>5. Watched'
  BY DEF Watched, Others, Me
<1>6. RefersAt(p)'
  BY <1>1 DEF RefersAt, RefersNext, LocalOK, Pair
<1>7. HandlerInv'
  BY <1>1, <1>6, OtherHandlers
<1> QED BY <1>2, <1>3, <1>4, <1>5, <1>7 DEF TypeOK

-----------------------------------------------------------------------------
(* The three ways a handler goes on without writing. *)

\* What returning leaves in the local variables of the handler.
LEMMA FinishLocal ==
  ASSUME LocalOK, NEW p \in Proc, Finish(p)
  PROVE  /\ LocalOK' /\ Others(p) /\ RefersNext(p)
         /\ ControlAt(p)' /\ LateAt(p)'
         /\ pc'[p] = "idle"
<1>1. LocalOK' /\ Others(p)
  BY NoneAssumption, GenAssumption
     DEF LocalOK, Finish, NoCall, Call, NoFamily, FamilyRecord, Request, Label,
         Others
<1>2. pc'[p] = "idle" /\ req'[p] = NoCall /\ item'[p] = None
      /\ sess'[p] = {} /\ fams'[p] = {}
  BY DEF Finish, LocalOK
<1>3. RefersNext(p)
  BY <1>2, NoneAssumption DEF RefersNext, NoCall, Call
<1>4. ControlAt(p)' /\ LateAt(p)'
  BY <1>2 DEF ControlAt, LateAt, NoCall, Call, Early, InRefresh, InAccess,
              InRevoke, PastCheck
<1> QED BY <1>1, <1>2, <1>3, <1>4

\* A handler that returns without writing preserves the invariant.
LEMMA FinishInv ==
  ASSUME IInv, NEW p \in Proc, Finish(p), Quiet
  PROVE  IInv'
<1>1. LocalOK' /\ Others(p) /\ RefersNext(p) /\ ControlAt(p)' /\ LateAt(p)'
      /\ pc'[p] = "idle"
  BY FinishLocal DEF IInv, TypeOK
<1> QED BY <1>1, QuietIsMild, MildInv DEF Early

\* So does one that goes on to a later check of its request.
LEMMA ProceedInv ==
  ASSUME IInv, NEW p \in Proc, NEW to \in InAccess \cup InRefresh,
         Proceed(p, to), Quiet,
         pc[p] \in InAccess \cup InRefresh, ~req[p].late, to # "ref_exec",
         to \in InRefresh => req[p].op \in {"refresh", "switch"},
         to \in PastCheck => copy[p].status = "active"
  PROVE  IInv'
<1> USE DEF IInv, TypeOK, LocalOK, Proceed, local, ctx, rev, loop
<1>1. LocalOK' /\ Others(p)
  BY DEF Others, Label, InAccess, InRefresh
<1>2. pc'[p] = to /\ UNCHANGED local
  OBVIOUS
<1>3. ControlAt(p)'
  BY <1>2 DEF HandlerInv, ControlAt, Early, InRefresh, InAccess, InRevoke,
              PastCheck
<1>4. RefersNext(p)
  BY <1>2 DEF HandlerInv, RefersAt, RefersNext, Early, InRefresh, InAccess
<1>5. LateAt(p)'
  BY <1>2 DEF LateAt
<1>6. to \notin Early
  BY DEF Early, InRefresh, InAccess
<1> HIDE DEF IInv, TypeOK, LocalOK, Proceed
<1> QED BY <1>1, <1>2, <1>3, <1>4, <1>5, <1>6, QuietIsMild, MildInv

\* What CallRevoke does to the caller.
LEMMA CallLocal ==
  ASSUME LocalOK, NEW p \in Proc, NEW f \in Family, NEW s \in {"revoked", "reused"},
         NEW b \in {"idle", "all_revoke", "exc_drop", "exc_remove", "prj_drop"},
         CallRevoke(p, f, s, b)
  PROVE  /\ pc' \in [Proc -> Label] /\ item' \in [Proc -> Family \cup {None}]
         /\ mark' \in [Proc -> {"revoked", "reused"}] /\ keys' = keys
         /\ ret' \in [Proc -> {"idle", "all_revoke", "exc_drop", "exc_remove", "prj_drop"}]
         /\ pc'[p] = "rev_family" /\ item'[p] = f
         /\ \A q \in Proc \ {p} : pc'[q] = pc[q] /\ item'[q] = item[q]
BY DEF LocalOK, CallRevoke, Label

\* So does one that turns a denial into the revocation of its own family.
LEMMA RevokeOwnInv ==
  ASSUME IInv, NEW p \in Proc, NEW s \in {"revoked", "reused"},
         RevokeOwn(p, s), Quiet,
         pc[p] \in InAccess \cup InRefresh, ~req[p].late
  PROVE  IInv'
<1>1. req[p].fam \in Family /\ Public(req[p].fam) /\ req[p].user \in User
  BY DEF IInv, HandlerInv, ControlAt, RefersAt, Early, InAccess, InRefresh
<1>2. CallRevoke(p, req[p].fam, s, "idle") /\ UNCHANGED <<req, ctx, loop>>
  BY DEF RevokeOwn
<1>3. /\ pc' \in [Proc -> Label] /\ item' \in [Proc -> Family \cup {None}]
      /\ mark' \in [Proc -> {"revoked", "reused"}] /\ keys' = keys
      /\ ret' \in [Proc -> {"idle", "all_revoke", "exc_drop", "exc_remove", "prj_drop"}]
      /\ pc'[p] = "rev_family" /\ item'[p] = req[p].fam
      /\ \A q \in Proc \ {p} : pc'[q] = pc[q] /\ item'[q] = item[q]
  BY <1>1, <1>2, CallLocal DEF IInv, TypeOK
<1>4. LocalOK' /\ Others(p)
  BY <1>2, <1>3 DEF IInv, TypeOK, LocalOK, Others, ctx, loop
<1>5. ControlAt(p)' /\ LateAt(p)' /\ RefersNext(p)
  BY <1>1, <1>2, <1>3 DEF IInv, HandlerInv, RefersAt, ControlAt, LateAt, RefersNext,
     Early, InRefresh, InAccess, InRevoke, PastCheck, ctx, loop
<1> QED BY <1>3, <1>4, <1>5, QuietIsMild, MildInv DEF Early

-----------------------------------------------------------------------------
(* validate_access_session *)

\* GET session of validate_access_session preserves the invariant.
LEMMA AccessSessionInv ==
  ASSUME IInv, NEW p \in Proc, AccessSession(p)
  PROVE  IInv'
<1>1. Quiet
  BY DEF AccessSession, Quiet
<1>2. CASE Finish(p)
  BY <1>1, <1>2, FinishInv
<1>3. CASE /\ pc' = [pc EXCEPT ![p] = "acc_family"]
           /\ scope' = [scope EXCEPT ![p] = session[Me(p)]]
           /\ UNCHANGED <<req, copy, child, rev, loop>>
           /\ session[Me(p)] # None
  <2>1. pc[p] = "acc_session" /\ Me(p) \in Pair
    BY DEF AccessSession, IInv, HandlerInv, ControlAt, InAccess, Me, Pair
  <2>2. LocalOK' /\ Others(p) /\ pc'[p] = "acc_family"
    BY <1>3, <2>1 DEF IInv, TypeOK, StoreOK, LocalOK, Others, Label, rev, loop
  <2>3. ControlAt(p)' /\ LateAt(p)' /\ RefersNext(p)
    BY <1>1, <1>3, <2>1, <2>2 DEF IInv, HandlerInv, ControlAt, LateAt, RefersAt,
       RefersNext, Early, InRefresh, InAccess, InRevoke, PastCheck, rev, loop, Quiet, hist
  <2> QED BY <1>1, <2>2, <2>3, QuietIsMild, MildInv DEF Early
<1> QED BY <1>2, <1>3 DEF AccessSession

\* _require_active_family: here a late request is turned away for good, since
\* a family that has ended is not active.
LEMMA AccessFamilyInv ==
  ASSUME IInv, NEW p \in Proc, AccessFamily(p)
  PROVE  IInv'
<1>1. Quiet /\ pc[p] = "acc_family"
  BY DEF AccessFamily, Quiet
<1>2. CASE Finish(p)
  BY <1>1, <1>2, FinishInv
<1>3. CASE Proceed(p, "acc_revoked") /\ family[req[p].fam].status = "active"
  <2>1. ~req[p].late
    BY <1>1, <1>3 DEF IInv, HandlerInv, LateAt, StoreInv, EndedIsFinal
  <2> QED BY <1>1, <1>3, <2>1, ProceedInv DEF InAccess, InRefresh, PastCheck
<1> QED BY <1>2, <1>3 DEF AccessFamily

\* is_refresh_family_revoked, at each of its call sites.
LEMMA IsRevokedInv ==
  ASSUME IInv, NEW p \in Proc, NEW from, NEW to, IsRevoked(p, from, to),
         <<from, to>> \in {<<"acc_revoked", "acc_user">>,
                          <<"ref_revoked", "ref_session">>,
                          <<"ref_stale", "cls_family">>,
                          <<"cls_revoked", "cls_decide">>}
  PROVE  IInv'
<1>1. Quiet /\ pc[p] = from
  BY DEF IsRevoked, Quiet
<1>2. CASE Finish(p)
  BY <1>1, <1>2, FinishInv
<1>3. CASE Proceed(p, to)
  <2>1. /\ ~req[p].late
        /\ to \in InRefresh => req[p].op \in {"refresh", "switch"}
        /\ to \in PastCheck => copy[p].status = "active"
        /\ from \in InAccess \cup InRefresh /\ to \in InAccess \cup InRefresh
        /\ to # "ref_exec"
    BY <1>1 DEF IInv, HandlerInv, LateAt, ControlAt, InAccess, InRefresh, PastCheck
  <2> QED BY <1>1, <1>3, <2>1, ProceedInv
<1> QED BY <1>2, <1>3 DEF IsRevoked

\* load_active_user, in validation and in rotation.
LEMMA LoadActiveUserInv ==
  ASSUME IInv, NEW p \in Proc, NEW from, NEW to, LoadActiveUser(p, from, to),
         <<from, to>> \in {<<"acc_user", "acc_context">>,
                          <<"ref_user", "ref_context">>}
  PROVE  IInv'
<1>1. Quiet /\ pc[p] = from
  BY DEF LoadActiveUser, Quiet
<1>2. /\ ~req[p].late
      /\ to \in InRefresh => req[p].op \in {"refresh", "switch"}
      /\ to \in PastCheck => copy[p].status = "active"
      /\ from \in InAccess \cup InRefresh /\ to \in InAccess \cup InRefresh
      /\ to # "ref_exec"
  BY <1>1 DEF IInv, HandlerInv, LateAt, ControlAt, InAccess, InRefresh, PastCheck
<1>3. CASE Proceed(p, to)
  BY <1>1, <1>2, <1>3, ProceedInv
<1>4. CASE RevokeOwn(p, "revoked")
  BY <1>1, <1>2, <1>4, RevokeOwnInv
<1> QED BY <1>3, <1>4 DEF LoadActiveUser

\* reconstruct_auth_context, in validation and in rotation.
LEMMA ReconstructContextInv ==
  ASSUME IInv, NEW p \in Proc, NEW from, NEW to, ReconstructContext(p, from, to),
         <<from, to>> \in {<<"acc_context", "accepted">>,
                          <<"ref_context", "ref_watch">>}
  PROVE  IInv'
<1>1. Quiet /\ pc[p] = from
  BY DEF ReconstructContext, Quiet
<1>2. /\ ~req[p].late
      /\ to \in InRefresh => req[p].op \in {"refresh", "switch"}
      /\ to \in PastCheck => copy[p].status = "active"
      /\ from \in InAccess \cup InRefresh /\ to \in InAccess \cup InRefresh
      /\ to # "ref_exec"
  BY <1>1 DEF IInv, HandlerInv, LateAt, ControlAt, InAccess, InRefresh, PastCheck
<1>3. CASE Proceed(p, to)
  BY <1>1, <1>2, <1>3, ProceedInv
<1>4. CASE RevokeOwn(p, "revoked")
  BY <1>1, <1>2, <1>4, RevokeOwnInv
<1> QED BY <1>3, <1>4 DEF ReconstructContext

\* What each route does with an accepted access token.
LEMMA AcceptedInv ==
  ASSUME IInv, NEW p \in Proc, Accepted(p)
  PROVE  IInv'
<1>1. Quiet /\ pc[p] = "accepted"
  BY DEF Accepted, Quiet
<1>2. ~req[p].late
  BY <1>1 DEF IInv, HandlerInv, LateAt
<1>3. CASE Finish(p)
  BY <1>1, <1>3, FinishInv
<1>4. CASE RevokeOwn(p, "revoked")
  BY <1>1, <1>2, <1>4, RevokeOwnInv DEF InAccess
<1>5. CASE req[p].op = "switch" /\ Proceed(p, "ref_family")
  BY <1>1, <1>2, <1>5, ProceedInv DEF InAccess, InRefresh, PastCheck
<1>6. CASE /\ pc' = [pc EXCEPT ![p] = "exc_sessions"]
           /\ cover' = [cover EXCEPT ![p] = Delivered(req[p].user) \ {req[p].fam}]
           /\ UNCHANGED <<req, ctx, rev, sess, fams, seen, at>>
  <2>1. LocalOK' /\ Others(p) /\ pc'[p] = "exc_sessions"
    BY <1>6 DEF IInv, TypeOK, LocalOK, Others, Label, ctx, rev, Delivered
  <2>2. ControlAt(p)' /\ LateAt(p)' /\ RefersNext(p)
    BY <1>1, <1>2, <1>6, <2>1 DEF IInv, HandlerInv, ControlAt, LateAt, RefersAt,
       RefersNext, Early, InRefresh, InAccess, InRevoke, PastCheck, ctx, rev
  <2> QED BY <1>1, <2>1, <2>2, QuietIsMild, MildInv DEF Early
<1> QED BY <1>3, <1>4, <1>5, <1>6 DEF Accepted

-----------------------------------------------------------------------------
(* rotate_refresh_family and classify_refresh_token_state, up to the EXEC *)

\* The first checks of rotation: a copy that is not active goes no further.
LEMMA RefreshTokenRecordInv ==
  ASSUME IInv, NEW p \in Proc, RefreshTokenRecord(p)
  PROVE  IInv'
<1>1. Quiet /\ pc[p] = "ref_token"
  BY DEF RefreshTokenRecord, Quiet
<1>2. req[p].op \in {"refresh", "switch"}
  BY <1>1 DEF IInv, HandlerInv, ControlAt, InRefresh
<1>3. CASE Finish(p)
  BY <1>1, <1>3, FinishInv
<1>4. CASE copy[p].status = "active"
           /\ (Proceed(p, "ref_revoked") \/ Proceed(p, "ref_stale"))
  <2>1. ~req[p].late
    BY <1>1, <1>4 DEF IInv, HandlerInv, LateAt
  <2> QED BY <1>1, <1>2, <1>4, <2>1, ProceedInv DEF InAccess, InRefresh, PastCheck
<1> QED BY <1>3, <1>4 DEF RefreshTokenRecord

\* Both sources of context lead on to the user check with a scope.
LEMMA ContextInv ==
  ASSUME IInv, NEW p \in Proc, NEW s \in Scope \cup {None}, Quiet,
         pc[p] \in {"ref_session", "ref_anchor"},
         pc' = [pc EXCEPT ![p] = "ref_user"],
         scope' = [scope EXCEPT ![p] = Rescoped(p, s)],
         UNCHANGED <<req, copy, child, rev, loop>>
  PROVE  IInv'
<1>1. Rescoped(p, s) \in Scope \cup {None}
  BY DEF Rescoped, IInv, TypeOK, LocalOK, Request, Scope
<1>2. LocalOK' /\ Others(p) /\ pc'[p] = "ref_user"
  BY <1>1 DEF IInv, TypeOK, LocalOK, Others, Label, rev, loop
<1>3. ControlAt(p)' /\ LateAt(p)' /\ RefersNext(p)
  BY <1>2 DEF IInv, HandlerInv, ControlAt, LateAt, RefersAt, RefersNext, Early,
     InRefresh, InAccess, InRevoke, PastCheck, rev, loop
<1> QED BY <1>2, <1>3, QuietIsMild, MildInv DEF Early

\* The session as the source of the context.
LEMMA RefreshSessionInv ==
  ASSUME IInv, NEW p \in Proc, RefreshSession(p)
  PROVE  IInv'
<1>1. Quiet /\ pc[p] = "ref_session"
  BY DEF RefreshSession, Quiet
<1>2. /\ ~req[p].late /\ req[p].op \in {"refresh", "switch"}
      /\ copy[p].status = "active" /\ Me(p) \in Pair
  BY <1>1 DEF IInv, HandlerInv, LateAt, ControlAt, InRefresh, PastCheck, Me, Pair
<1>3. session[Me(p)] \in Scope \cup {None}
  BY <1>2 DEF IInv, TypeOK, StoreOK
<1>4. CASE Finish(p)
  BY <1>1, <1>4, FinishInv
<1>5. CASE Proceed(p, "ref_anchor")
  BY <1>1, <1>2, <1>5, ProceedInv DEF InAccess, InRefresh
<1>6. CASE /\ pc' = [pc EXCEPT ![p] = "ref_user"]
           /\ scope' = [scope EXCEPT ![p] = Rescoped(p, session[Me(p)])]
           /\ UNCHANGED <<req, copy, child, rev, loop>>
  BY <1>1, <1>3, <1>6, ContextInv
<1> QED BY <1>4, <1>5, <1>6 DEF RefreshSession

\* The anchor as the source of the context.
LEMMA RefreshAnchorInv ==
  ASSUME IInv, NEW p \in Proc, RefreshAnchor(p)
  PROVE  IInv'
<1>1. Quiet /\ pc[p] = "ref_anchor"
  BY DEF RefreshAnchor, Quiet
<1>2. ~req[p].late /\ req[p].fam \in Family
  BY <1>1 DEF IInv, HandlerInv, LateAt, ControlAt, InRefresh
<1>3. anchor[req[p].fam].scope \in Scope \cup {None}
  BY <1>2 DEF IInv, TypeOK, StoreOK, AnchorRecord
<1>4. CASE Finish(p)
  BY <1>1, <1>4, FinishInv
<1>5. CASE RevokeOwn(p, "revoked")
  BY <1>1, <1>2, <1>5, RevokeOwnInv DEF InRefresh
<1>6. CASE /\ pc' = [pc EXCEPT ![p] = "ref_user"]
           /\ scope' = [scope EXCEPT ![p] = Rescoped(p, anchor[req[p].fam].scope)]
           /\ UNCHANGED <<req, copy, child, rev, loop>>
  BY <1>1, <1>3, <1>6, ContextInv
<1> QED BY <1>4, <1>5, <1>6 DEF RefreshAnchor

\* classify_refresh_token_state: the token record.
LEMMA ClassifyTokenInv ==
  ASSUME IInv, NEW p \in Proc, ClassifyToken(p)
  PROVE  IInv'
<1>1. Quiet /\ pc[p] = "cls_token"
  BY DEF ClassifyToken, Quiet
<1>2. CASE Finish(p)
  BY <1>1, <1>2, FinishInv
<1>3. CASE /\ pc' = [pc EXCEPT ![p] = "cls_revoked"]
           /\ child' = [child EXCEPT ![p] = token[Me(p)].child]
           /\ UNCHANGED <<req, scope, copy, rev, loop>>
  <2>1. token[Me(p)].child \in 0..MaxGen
    BY <1>1 DEF IInv, HandlerInv, ControlAt, InRefresh, TypeOK, StoreOK,
       TokenRecord, Me, Pair
  <2>2. LocalOK' /\ Others(p) /\ pc'[p] = "cls_revoked"
    BY <1>3, <2>1 DEF IInv, TypeOK, LocalOK, Others, Label, rev, loop
  <2>3. ControlAt(p)' /\ LateAt(p)' /\ RefersNext(p)
    BY <1>1, <1>3, <2>2 DEF IInv, HandlerInv, ControlAt, LateAt, RefersAt,
       RefersNext, Early, InRefresh, InAccess, InRevoke, PastCheck, rev, loop
  <2> QED BY <1>1, <2>2, <2>3, QuietIsMild, MildInv DEF Early
<1> QED BY <1>2, <1>3 DEF ClassifyToken

\* classify_refresh_token_state: the replay grace.
LEMMA ClassifyDecideInv ==
  ASSUME IInv, NEW p \in Proc, ClassifyDecide(p)
  PROVE  IInv'
<1>1. Quiet /\ pc[p] = "cls_decide"
  BY DEF ClassifyDecide, Quiet
<1>2. ~req[p].late
  BY <1>1 DEF IInv, HandlerInv, LateAt
<1>3. CASE Finish(p)
  BY <1>1, <1>3, FinishInv
<1>4. CASE RevokeOwn(p, "reused")
  BY <1>1, <1>2, <1>4, RevokeOwnInv DEF InRefresh
<1> QED BY <1>3, <1>4 DEF ClassifyDecide

-----------------------------------------------------------------------------
(* Requests and jobs arrive *)

\* A request arrives with a token of a delivered, hence public, family.
LEMMA ArriveInv ==
  ASSUME IInv, NEW p \in Proc, NEW o \in Op, NEW k \in Pair,
         NEW t \in Project \cup {None}, NEW to \in {"acc_session", "ref_family"},
         Arrive(p, o, k, t, to),
         o \in {"refresh", "switch"} => k[2] < MaxGen,
         to = "ref_family" => o = "refresh"
  PROVE  IInv'
<1>1. Quiet /\ pc[p] = "idle" /\ k \in held /\ UNCHANGED <<ctx, rev, loop>>
  BY DEF Arrive, Quiet
<1>2. k[1] \in Family /\ k[2] \in Gen /\ Owner[k[1]] \in User
  BY OwnerAssumption DEF Pair
<1>3. pc'[p] = to /\ req'[p] = Call(o, Owner[k[1]], k[1], k[2], t, k[1] \in ended)
  BY DEF Arrive, IInv, TypeOK, LocalOK
<1>4. LocalOK' /\ Others(p)
  BY <1>1, <1>2 DEF Arrive, IInv, TypeOK, LocalOK, Others, Label, Request, Call,
     ctx, rev, loop, Gen
<1>5. ControlAt(p)'
  BY <1>2, <1>3 DEF ControlAt, Call, Early, InRefresh, InAccess, InRevoke, PastCheck
<1>6. LateAt(p)'
  <2>1. req'[p].fam = k[1] /\ ended' = ended
    BY <1>1, <1>3 DEF Call, Quiet, hist
  <2>2. CASE k[1] \in ended
    BY <1>3, <2>1, <2>2 DEF LateAt
  <2>3. CASE k[1] \notin ended
    <3>1. (k[1] \in ended) = FALSE
      BY <2>3
    <3>2. req'[p] = Call(o, Owner[k[1]], k[1], k[2], t, FALSE)
      BY <1>3, <3>1, Zenon
    <3> QED BY <3>2 DEF LateAt, Call
  <2> QED BY <2>2, <2>3
<1>7. RefersNext(p)
  BY <1>1, <1>2, <1>3 DEF IInv, HandlerInv, Referred, RefersAt, RefersNext, Call,
     ctx, rev, loop
<1> QED BY <1>1, <1>3, <1>4, <1>5, <1>6, <1>7, QuietIsMild, MildInv DEF Early

\* A password reset or a deactivation starts its sweep.
LEMMA StartSweepInv ==
  ASSUME IInv, NEW p \in Proc, NEW o \in Op, NEW u \in User, StartSweep(p, o, u),
         Mild, StoreOK'
  PROVE  IInv'
<1>1. pc[p] = "idle" /\ UNCHANGED <<ctx, rev, sess, fams, seen, at>>
  BY DEF StartSweep
<1>2. pc'[p] = "all_sessions" /\ req'[p] = Call(o, u, None, 0, None, FALSE)
  BY DEF StartSweep, IInv, TypeOK, LocalOK
<1>3. LocalOK' /\ Others(p)
  BY <1>1, GenAssumption DEF StartSweep, IInv, TypeOK, LocalOK, Others, Label,
     Request, Call, ctx, rev, Delivered
<1>4. ControlAt(p)' /\ LateAt(p)'
  BY <1>2 DEF ControlAt, LateAt, Call, Early, InRefresh, InAccess, InRevoke, PastCheck
<1>5. RefersNext(p)
  BY <1>1, <1>2, NoneAssumption DEF IInv, HandlerInv, RefersAt, RefersNext, Call,
     rev
<1> QED BY <1>2, <1>3, <1>4, <1>5, MildInv DEF Early

\* A change of groups or projects starts its sweep.
LEMMA RemoveAccessInv ==
  ASSUME IInv, NEW p \in Proc, NEW u \in User, NEW s \in Project,
         RemoveAccess(p, u, s)
  PROVE  IInv'
<1>1. pc[p] = "idle" /\ UNCHANGED <<ctx, rev, loop>>
  BY DEF RemoveAccess
<1>2. pc'[p] = "prj_sessions" /\ req'[p] = Call("remove_access", u, None, 0, s, FALSE)
  BY DEF RemoveAccess, IInv, TypeOK, LocalOK
<1>3. LocalOK' /\ Others(p)
  BY <1>1, GenAssumption DEF RemoveAccess, IInv, TypeOK, LocalOK, Others, Label,
     Request, Call, Op, ctx, rev, loop
<1>4. Mild /\ StoreOK'
  BY DEF RemoveAccess, Mild, IInv, TypeOK, StoreOK, redis, jwt, hist
<1>5. ControlAt(p)' /\ LateAt(p)'
  BY <1>2 DEF ControlAt, LateAt, Call, Early, InRefresh, InAccess, InRevoke, PastCheck
<1>6. RefersNext(p)
  BY <1>1, <1>2, NoneAssumption DEF IInv, HandlerInv, RefersAt, RefersNext, Call,
     rev, loop
<1> QED BY <1>2, <1>3, <1>4, <1>5, <1>6, MildInv DEF Early

\* SET session of a sign-in.
LEMMA IssueSessionInv ==
  ASSUME IInv, NEW p \in Proc, IssueSession(p)
  PROVE  IInv'
<1>1. pc[p] = "issue_session" /\ UNCHANGED local
  BY DEF IssueSession, Goto
<1>2. LocalOK' /\ Others(p) /\ pc'[p] = "issue_family"
  BY <1>1 DEF IssueSession, Goto, IInv, TypeOK, LocalOK, Others, Label, local, ctx,
     rev, loop
<1>3. Mild /\ StoreOK'
  BY DEF IssueSession, IInv, TypeOK, StoreOK, LocalOK, Mild, db, jwt, hist
<1>4. ControlAt(p)' /\ LateAt(p)' /\ RefersNext(p)
  BY <1>1, <1>2 DEF IInv, HandlerInv, ControlAt, LateAt, RefersAt, RefersNext,
     Early, InRefresh, InAccess, InRevoke, PastCheck, local, ctx, rev, loop
<1> QED BY <1>1, <1>2, <1>3, <1>4, MildInv DEF Early, Stored, local

\* GET of the family, by the rotation or by the classification.
LEMMA ReadFamilyInv ==
  ASSUME IInv, NEW p \in Proc, RefreshFamilyRecord(p) \/ ClassifyFamily(p)
  PROVE  IInv'
<1>1. /\ Quiet /\ pc[p] \in {"ref_family", "cls_family"}
      /\ copy' = [copy EXCEPT ![p] = family[req[p].fam]]
      /\ UNCHANGED <<req, scope, child, rev, loop>>
  BY DEF RefreshFamilyRecord, ClassifyFamily, Goto, Quiet
<1>2. req[p].fam \in Family
  BY <1>1 DEF IInv, HandlerInv, ControlAt, InRefresh
<1>3. pc' \in [Proc -> Label] /\ \A q \in Proc \ {p} : pc'[q] = pc[q]
  BY DEF RefreshFamilyRecord, ClassifyFamily, Goto, Label, IInv, TypeOK, LocalOK
<1>4. LocalOK' /\ Others(p)
  BY <1>1, <1>2, <1>3 DEF IInv, TypeOK, StoreOK, LocalOK, Others, rev, loop
<1>5. /\ copy'[p] = family[req[p].fam]
      /\ \/ pc[p] = "ref_family" /\ pc'[p] = "ref_token"
         \/ pc[p] = "cls_family" /\ pc'[p] = "cls_token"
  BY <1>1 DEF RefreshFamilyRecord, ClassifyFamily, Goto, IInv, TypeOK, LocalOK
<1>6. ControlAt(p)' /\ RefersNext(p)
  BY <1>1, <1>5 DEF IInv, HandlerInv, ControlAt, RefersAt, RefersNext,
     Early, InRefresh, InAccess, InRevoke, PastCheck, rev, loop
<1>7. LateAt(p)'
  BY <1>1, <1>5 DEF IInv, HandlerInv, LateAt, StoreInv, EndedIsFinal, Quiet, hist
<1> QED BY <1>1, <1>4, <1>5, <1>6, <1>7, QuietIsMild, MildInv DEF Early

\* SET anchor of a sign-in.
LEMMA IssueAnchorInv ==
  ASSUME IInv, NEW p \in Proc, IssueAnchor(p)
  PROVE  IInv'
<1>1. pc[p] = "issue_anchor" /\ UNCHANGED local /\ req[p].fam \in Family
  BY DEF IssueAnchor, Goto, IInv, HandlerInv, ControlAt, Early
<1>2. LocalOK' /\ Others(p) /\ pc'[p] = "issue_sessions_index"
  BY <1>1 DEF IssueAnchor, Goto, IInv, TypeOK, LocalOK, Others, Label, local, ctx,
     rev, loop
<1>3. AnchorPayload(p, 1) \in AnchorRecord
  BY GenAssumption DEF AnchorPayload, AnchorRecord, IInv, TypeOK, LocalOK
<1>4. Mild
  BY DEF IssueAnchor, Mild, Touch, jwt, hist
<1>5. StoreOK'
  BY <1>3 DEF IssueAnchor, IInv, TypeOK, StoreOK, Touch, Watchers, db, jwt, hist
<1>6. ControlAt(p)' /\ LateAt(p)' /\ RefersNext(p)
  BY <1>1, <1>2 DEF IInv, HandlerInv, ControlAt, LateAt, RefersAt, RefersNext,
     Early, InRefresh, InAccess, InRevoke, PastCheck, local, ctx, rev, loop
<1> QED BY <1>1, <1>2, <1>4, <1>5, <1>6, MildInv DEF Early, Stored, local

-----------------------------------------------------------------------------
(* revoke_refresh_family and the loops of the sweeps *)

\* Labels of a handler that is revoking families.
Sweeping == InRevoke \cup {"all_sessions", "all_delete", "all_revoke",
                          "exc_sessions", "exc_session", "exc_family",
                          "prj_sessions", "prj_session"}

\* A mild step inside a sweep that takes no family but from an index.
LEMMA SweepStepInv ==
  ASSUME IInv, NEW p \in Proc, Others(p), Mild, LocalOK', StoreOK',
         pc[p] \in Sweeping, pc'[p] \in Sweeping, UNCHANGED <<req, item>>,
         pc'[p] \in InRevoke => pc[p] \in InRevoke,
         \A k \in sess'[p] : k \in sess[p] \/ \E u \in User : k \in usess[u],
         \A f \in fams'[p] : f \in fams[p] \/ \E u \in User : f \in ufam[u]
  PROVE  IInv'
<1>1. ~req[p].late
  BY DEF IInv, HandlerInv, LateAt, Sweeping, InRevoke
<1>2. ControlAt(p)' /\ LateAt(p)'
  BY <1>1 DEF IInv, HandlerInv, ControlAt, LateAt, Sweeping, Early, InRefresh,
     InAccess, InRevoke, PastCheck
<1>3. RefersNext(p)
  BY DEF IInv, HandlerInv, Referred, RefersAt, RefersNext, Sweeping, Early, InRevoke
<1>4. pc'[p] \notin Early /\ pc'[p] # "ref_exec"
  BY DEF Sweeping, Early, InRevoke
<1> QED BY <1>2, <1>3, <1>4, MildInv

\* The commands of revoke_refresh_family other than the SET of the family.
LEMMA RevokeStepInv ==
  ASSUME IInv, NEW p \in Proc,
         RevokeFamily(p) \/ RevokeTomb(p) \/ RevokeAnchor(p)
           \/ RevokeIndex(p) \/ RevokeSession(p)
  PROVE  IInv'
<1>1. /\ pc[p] \in InRevoke /\ UNCHANGED <<req, item, sess, fams>>
      /\ UNCHANGED <<db, jwt, aged, hist, family, token, usess, ufam>>
  BY DEF RevokeFamily, RevokeTomb, RevokeAnchor, RevokeIndex, RevokeSession, Goto,
     InRevoke, redis, local, ctx, rev, loop
<1>2. item[p] \in Family /\ Owner[item[p]] \in User
  BY <1>1, OwnerAssumption DEF IInv, HandlerInv, ControlAt, InRevoke
<1>3. /\ pc'[p] \in InRevoke /\ pc' \in [Proc -> Label]
      /\ \A q \in Proc \ {p} : pc'[q] = pc[q]
  BY DEF RevokeFamily, RevokeTomb, RevokeAnchor, RevokeIndex, RevokeSession, Goto,
     IInv, TypeOK, LocalOK, InRevoke, Label
<1>4. Mild
  BY <1>1 DEF RevokeFamily, RevokeTomb, RevokeAnchor, RevokeIndex, RevokeSession,
     Mild, Touch, jwt, hist
<1>5. StoreOK'
  <2>1. NoAnchor \in AnchorRecord
    BY GenAssumption DEF NoAnchor, AnchorRecord
  <2>2. session' \in [Pair -> Scope \cup {None}] /\ tomb' \in SUBSET Family
    BY <1>2 DEF RevokeFamily, RevokeTomb, RevokeAnchor, RevokeIndex, RevokeSession,
       IInv, TypeOK, StoreOK, redis
  <2>3. anchor' \in [Family -> AnchorRecord] /\ dirty' \in SUBSET Proc
    BY <2>1 DEF RevokeFamily, RevokeTomb, RevokeAnchor, RevokeIndex, RevokeSession,
       IInv, TypeOK, StoreOK, redis, Touch, Watchers
  <2> QED BY <1>1, <2>2, <2>3 DEF IInv, TypeOK, StoreOK, db, jwt, hist
<1>6. copy' \in [Proc -> FamilyRecord] /\ \A q \in Proc \ {p} : copy'[q] = copy[q]
  BY <1>2 DEF RevokeFamily, RevokeTomb, RevokeAnchor, RevokeIndex, RevokeSession,
     IInv, TypeOK, StoreOK, LocalOK, local, ctx
<1>7. keys' \in [Proc -> SUBSET Pair]
  <2>1. CASE RevokeIndex(p)
    <3>1. {k \in usess[Owner[item[p]]] : k[1] = item[p]} \in SUBSET Pair
      BY <1>2 DEF IInv, TypeOK, StoreOK
    <3>2. {k \in Pair : k[1] = item[p] /\ k[2] = copy[p].cur} \in SUBSET Pair
      OBVIOUS
    <3> QED BY <2>1, <3>1, <3>2 DEF RevokeIndex, IInv, TypeOK, LocalOK
  <2> QED BY <2>1 DEF RevokeFamily, RevokeTomb, RevokeAnchor, RevokeSession, IInv,
             TypeOK, LocalOK, local, rev
<1>8. LocalOK' /\ Others(p)
  BY <1>1, <1>3, <1>6, <1>7 DEF RevokeFamily, RevokeTomb, RevokeAnchor, RevokeIndex,
     RevokeSession, IInv, TypeOK, LocalOK, Others, local, ctx, rev, loop
<1> QED BY <1>1, <1>3, <1>4, <1>5, <1>8, SweepStepInv DEF Sweeping

\* revoke_refresh_family returns to its caller.
LEMMA RevokeReturnInv ==
  ASSUME IInv, NEW p \in Proc, RevokeReturn(p)
  PROVE  IInv'
<1>1. Quiet /\ pc[p] = "rev_sessions"
  BY DEF RevokeReturn, Quiet
<1>2. CASE Finish(p)
  BY <1>1, <1>2, FinishInv
<1>3. CASE Proceed(p, ret[p]) /\ ret[p] # "idle"
  <2>1. ret[p] \in {"all_revoke", "exc_drop", "exc_remove", "prj_drop"}
    BY <1>3 DEF IInv, TypeOK, LocalOK
  <2>2. LocalOK' /\ Others(p) /\ pc'[p] = ret[p] /\ UNCHANGED local
    BY <1>3, <2>1 DEF Proceed, IInv, TypeOK, LocalOK, Others, Label, local, ctx,
       rev, loop
  <2>3. ControlAt(p)' /\ LateAt(p)' /\ RefersNext(p)
    BY <1>1, <2>1, <2>2 DEF IInv, HandlerInv, ControlAt, LateAt, RefersAt,
       RefersNext, Early, InRefresh, InAccess, InRevoke, PastCheck, local, ctx,
       rev, loop
  <2> QED BY <1>1, <2>1, <2>2, <2>3, QuietIsMild, MildInv DEF Early
<1> QED BY <1>2, <1>3 DEF RevokeReturn

\* SMEMBERS of an index, at the start of each loop.
LEMMA ListInv ==
  ASSUME IInv, NEW p \in Proc,
         AllSessions(p) \/ ExceptSessions(p) \/ ProjectSessions(p)
           \/ AllFamilies(p) \/ ExceptFamilies(p)
  PROVE  IInv'
<1>1. Quiet /\ UNCHANGED <<req, ctx, rev, seen, at, cover>>
  BY DEF AllSessions, ExceptSessions, ProjectSessions, AllFamilies, ExceptFamilies,
     Quiet
<1>2. /\ pc[p] \in Sweeping \ InRevoke /\ pc'[p] \in Sweeping \ InRevoke
      /\ pc' \in [Proc -> Label] /\ \A q \in Proc \ {p} : pc'[q] = pc[q]
  BY DEF AllSessions, ExceptSessions, ProjectSessions, AllFamilies, ExceptFamilies,
     Goto, Sweeping, InRevoke, Label, IInv, TypeOK, LocalOK
<1>3. req[p].user \in User
  BY <1>2 DEF IInv, HandlerInv, ControlAt, Sweeping, InRevoke
<1>4. \/ sess' = [sess EXCEPT ![p] = usess[req[p].user]] /\ fams' = fams
      \/ fams' = [fams EXCEPT ![p] = ufam[req[p].user]] /\ sess' = sess
  BY DEF AllSessions, ExceptSessions, ProjectSessions, AllFamilies, ExceptFamilies
<1>5. /\ sess' \in [Proc -> SUBSET Pair] /\ fams' \in [Proc -> SUBSET Family]
      /\ \A q \in Proc \ {p} : sess'[q] = sess[q] /\ fams'[q] = fams[q]
      /\ sess'[p] \in {sess[p], usess[req[p].user]}
      /\ fams'[p] \in {fams[p], ufam[req[p].user]}
  <2>1. /\ sess \in [Proc -> SUBSET Pair] /\ usess[req[p].user] \in SUBSET Pair
        /\ fams \in [Proc -> SUBSET Family] /\ ufam[req[p].user] \in SUBSET Family
    BY <1>3 DEF IInv, TypeOK, StoreOK, LocalOK
  <2>2. CASE sess' = [sess EXCEPT ![p] = usess[req[p].user]] /\ fams' = fams
    BY <2>1, <2>2
  <2>3. CASE fams' = [fams EXCEPT ![p] = ufam[req[p].user]] /\ sess' = sess
    BY <2>1, <2>3
  <2> QED BY <1>4, <2>2, <2>3
<1>6. LocalOK' /\ Others(p)
  BY <1>1, <1>2, <1>5 DEF IInv, TypeOK, LocalOK, Others, ctx, rev
<1> QED BY <1>1, <1>2, <1>3, <1>5, <1>6, QuietIsMild, SweepStepInv DEF rev

\* A session is deleted and members leave the indexes.
LEMMA DropInv ==
  ASSUME IInv, NEW p \in Proc,
         AllDelete(p) \/ ExceptDrop(p) \/ ExceptRemove(p) \/ ProjectDrop(p)
  PROVE  IInv'
<1> USE DEF AllDelete, ExceptDrop, ExceptRemove, ProjectDrop, Goto
<1>1. /\ pc[p] \in Sweeping /\ pc'[p] \in Sweeping \ InRevoke
      /\ pc' \in [Proc -> Label] /\ \A q \in Proc \ {p} : pc'[q] = pc[q]
  BY DEF Sweeping, InRevoke, Label, IInv, TypeOK, LocalOK
<1>2. /\ UNCHANGED <<req, ctx, rev, fams, cover>>
      /\ UNCHANGED <<family, token, anchor, tomb, db, jwt, aged, dirty, hist>>
  OBVIOUS
<1>3. /\ sess' \in [Proc -> SUBSET Pair] /\ sess'[p] \subseteq sess[p]
      /\ \A q \in Proc \ {p} : sess'[q] = sess[q]
  BY DEF IInv, TypeOK, LocalOK
<1>4. \A u \in User : usess'[u] \subseteq usess[u] /\ ufam'[u] \subseteq ufam[u]
  BY DEF IInv, TypeOK, StoreOK
<1>5. /\ session' \in [Pair -> Scope \cup {None}]
      /\ usess' \in [User -> SUBSET Pair] /\ ufam' \in [User -> SUBSET Family]
  BY DEF IInv, TypeOK, StoreOK
<1>6. at' \in [Proc -> Pair \cup {None}] /\ seen' \in [Proc -> SUBSET Family]
  <2>1. pc[p] \in InRevoke => item[p] \in Family
    BY DEF IInv, HandlerInv, ControlAt
  <2> QED BY <2>1 DEF IInv, TypeOK, LocalOK, InRevoke
<1> HIDE DEF AllDelete, ExceptDrop, ExceptRemove, ProjectDrop
<1>7. LocalOK' /\ Others(p)
  BY <1>1, <1>2, <1>3, <1>6 DEF IInv, TypeOK, LocalOK, Others, ctx, rev
<1>8. Mild /\ StoreOK'
  BY <1>2, <1>4, <1>5 DEF IInv, TypeOK, StoreOK, Mild, db, jwt, hist
<1> QED BY <1>1, <1>2, <1>3, <1>7, <1>8, SweepStepInv DEF rev

\* A sweep calls revoke_refresh_family for a family one of its loops found.
LEMMA SweepCallInv ==
  ASSUME IInv, NEW p \in Proc, NEW f \in Family, Public(f),
         NEW b \in {"all_revoke", "exc_drop", "exc_remove", "prj_drop"},
         CallRevoke(p, f, "revoked", b), Quiet,
         pc[p] \in {"all_revoke", "exc_session", "exc_family", "prj_session"},
         UNCHANGED <<req, ctx, seen, cover>>,
         LocalOK', Others(p),
         sess'[p] \subseteq sess[p], fams'[p] \subseteq fams[p]
  PROVE  IInv'
<1>1. pc'[p] = "rev_family" /\ item'[p] = f
  BY DEF CallRevoke, IInv, TypeOK, LocalOK
<1>2. ControlAt(p)' /\ LateAt(p)'
  BY <1>1 DEF IInv, HandlerInv, ControlAt, LateAt, Early, InRefresh, InAccess,
     InRevoke, PastCheck
<1>3. RefersNext(p)
  BY <1>1 DEF IInv, HandlerInv, RefersAt, RefersNext, Early
<1> QED BY <1>1, <1>2, <1>3, QuietIsMild, MildInv DEF Early

\* revoke_user_auth_state takes the next family.
LEMMA AllRevokeInv ==
  ASSUME IInv, NEW p \in Proc, AllRevoke(p)
  PROVE  IInv'
<1>1. PICK f \in fams[p] : /\ fams' = [fams EXCEPT ![p] = @ \ {f}]
                           /\ CallRevoke(p, f, "revoked", "all_revoke")
  BY DEF AllRevoke
<1>2. /\ Quiet /\ pc[p] = "all_revoke"
      /\ UNCHANGED <<req, ctx, sess, seen, at, cover>>
  BY DEF AllRevoke, Quiet
<1>3. f \in Family /\ Public(f)
  BY DEF IInv, TypeOK, LocalOK, HandlerInv, RefersAt
<1>4. LocalOK' /\ Others(p) /\ fams'[p] \subseteq fams[p] /\ sess'[p] \subseteq sess[p]
  BY <1>1, <1>2, <1>3 DEF CallRevoke, IInv, TypeOK, LocalOK, Others, Label, ctx
<1> QED BY <1>1, <1>2, <1>3, <1>4, SweepCallInv

\* The family loop of revoke_user_auth_state_except_current.
LEMMA ExceptFamilyInv ==
  ASSUME IInv, NEW p \in Proc, ExceptFamily(p)
  PROVE  IInv'
<1>1. PICK f \in fams[p] :
        /\ fams' = [fams EXCEPT ![p] = @ \ {f}]
        /\ \/ UNCHANGED <<pc, rev>>
           \/ CallRevoke(p, f, "revoked", "exc_remove")
  BY DEF ExceptFamily
<1>2. /\ Quiet /\ pc[p] = "exc_family"
      /\ UNCHANGED <<req, ctx, sess, seen, at, cover>>
  BY DEF ExceptFamily, Quiet
<1>3. f \in Family /\ Public(f)
  BY DEF IInv, TypeOK, LocalOK, HandlerInv, RefersAt
<1>4. CASE UNCHANGED <<pc, rev>>
  <2>1. LocalOK' /\ Others(p) /\ fams'[p] \subseteq fams[p]
    BY <1>1, <1>2, <1>4 DEF IInv, TypeOK, LocalOK, Others, ctx, rev
  <2>2. ControlAt(p)' /\ LateAt(p)' /\ RefersNext(p)
    BY <1>2, <1>4, <2>1 DEF IInv, HandlerInv, ControlAt, LateAt, RefersAt,
       RefersNext, Early, InRefresh, InAccess, InRevoke, PastCheck, ctx, rev
  <2> QED BY <1>2, <1>4, <2>1, <2>2, QuietIsMild, MildInv DEF Early
<1>5. CASE CallRevoke(p, f, "revoked", "exc_remove")
  <2>1. LocalOK' /\ Others(p) /\ fams'[p] \subseteq fams[p]
        /\ sess'[p] \subseteq sess[p]
    BY <1>1, <1>2, <1>3, <1>5 DEF CallRevoke, IInv, TypeOK, LocalOK, Others, Label,
       ctx
  <2> QED BY <1>2, <1>3, <1>5, <2>1, SweepCallInv
<1> QED BY <1>1, <1>4, <1>5

\* The session loop of revoke_user_auth_state_except_current.
LEMMA ExceptSessionInv ==
  ASSUME IInv, NEW p \in Proc, ExceptSession(p)
  PROVE  IInv'
<1>1. PICK k \in sess[p] :
        /\ sess' = [sess EXCEPT ![p] = @ \ {k}]
        /\ \/ UNCHANGED <<session, usess, pc, rev, at>>
           \/ /\ session' = [session EXCEPT ![k] = None]
              /\ usess' = [usess EXCEPT ![req[p].user] = @ \ {k}]
              /\ UNCHANGED <<pc, rev, at>>
           \/ /\ at' = [at EXCEPT ![p] = k]
              /\ \/ /\ pc' = [pc EXCEPT ![p] = "exc_drop"]
                    /\ item' = [item EXCEPT ![p] = k[1]]
                    /\ UNCHANGED <<mark, ret, keys>>
                 \/ CallRevoke(p, k[1], "revoked", "exc_drop")
              /\ UNCHANGED <<session, usess>>
  BY DEF ExceptSession
<1>2. /\ pc[p] = "exc_session"
      /\ UNCHANGED <<family, token, anchor, tomb, ufam, db, jwt, aged, req, ctx,
                     fams, seen, cover, dirty, hist>>
  BY DEF ExceptSession
<1>3. k \in Pair /\ k[1] \in Family /\ Public(k[1])
  BY DEF IInv, TypeOK, LocalOK, HandlerInv, RefersAt, Pair
<1>4. sess'[p] \subseteq sess[p] /\ sess' \in [Proc -> SUBSET Pair]
      /\ \A q \in Proc \ {p} : sess'[q] = sess[q]
  BY <1>1 DEF IInv, TypeOK, LocalOK
<1>5. CASE /\ UNCHANGED <<pc, rev, at>>
           /\ \/ UNCHANGED <<session, usess>>
              \/ /\ session' = [session EXCEPT ![k] = None]
                 /\ usess' = [usess EXCEPT ![req[p].user] = @ \ {k}]
  <2>1. LocalOK' /\ Others(p)
    BY <1>2, <1>4, <1>5 DEF IInv, TypeOK, LocalOK, Others, ctx, rev
  <2>2. Mild /\ StoreOK'
    BY <1>2, <1>5 DEF IInv, TypeOK, StoreOK, Mild, db, jwt, hist
  <2>3. ControlAt(p)' /\ LateAt(p)' /\ RefersNext(p)
    BY <1>2, <1>4, <1>5 DEF IInv, HandlerInv, ControlAt, LateAt, RefersAt,
       RefersNext, Early, InRefresh, InAccess, InRevoke, PastCheck, ctx, rev
  <2> QED BY <1>2, <1>5, <2>1, <2>2, <2>3, MildInv DEF Early
<1>6. CASE /\ at' = [at EXCEPT ![p] = k] /\ UNCHANGED <<session, usess>>
           /\ CallRevoke(p, k[1], "revoked", "exc_drop")
  <2>1. LocalOK' /\ Others(p)
    BY <1>2, <1>3, <1>4, <1>6 DEF CallRevoke, IInv, TypeOK, LocalOK, Others, Label,
       ctx
  <2>2. Quiet
    BY <1>2, <1>6 DEF Quiet, redis
  <2> QED BY <1>2, <1>3, <1>4, <1>6, <2>1, <2>2, SweepCallInv
<1>7. CASE /\ at' = [at EXCEPT ![p] = k] /\ UNCHANGED <<session, usess>>
           /\ pc' = [pc EXCEPT ![p] = "exc_drop"]
           /\ item' = [item EXCEPT ![p] = k[1]]
           /\ UNCHANGED <<mark, ret, keys>>
  <2>1. LocalOK' /\ Others(p) /\ pc'[p] = "exc_drop" /\ item'[p] = k[1]
    BY <1>2, <1>3, <1>4, <1>7 DEF IInv, TypeOK, LocalOK, Others, Label, ctx
  <2>2. Quiet
    BY <1>2, <1>7 DEF Quiet, redis
  <2>3. ControlAt(p)' /\ LateAt(p)' /\ RefersNext(p)
    BY <1>2, <1>3, <1>4, <2>1 DEF IInv, HandlerInv, ControlAt, LateAt, RefersAt,
       RefersNext, Early, InRefresh, InAccess, InRevoke, PastCheck, ctx
  <2> QED BY <2>1, <2>2, <2>3, QuietIsMild, MildInv DEF Early
<1> QED BY <1>1, <1>5, <1>6, <1>7

\* The session loop of revoke_project_sessions_losing_access.
LEMMA ProjectSessionInv ==
  ASSUME IInv, NEW p \in Proc, ProjectSession(p)
  PROVE  IInv'
<1>1. PICK k \in sess[p] :
        /\ sess' = [sess EXCEPT ![p] = @ \ {k}]
        /\ \/ /\ usess' = [usess EXCEPT ![req[p].user] =
                             IF session[k] = None THEN @ \ {k} ELSE @]
              /\ UNCHANGED <<pc, rev, at>>
           \/ /\ CallRevoke(p, k[1], "revoked", "prj_drop")
              /\ at' = [at EXCEPT ![p] = k]
              /\ UNCHANGED usess
  BY DEF ProjectSession
<1>2. /\ pc[p] = "prj_session"
      /\ UNCHANGED <<session, family, token, anchor, tomb, ufam, db, jwt, aged, req,
                     ctx, fams, seen, cover, dirty, hist>>
  BY DEF ProjectSession
<1>3. k \in Pair /\ k[1] \in Family /\ Public(k[1])
  BY DEF IInv, TypeOK, LocalOK, HandlerInv, RefersAt, Pair
<1>4. sess'[p] \subseteq sess[p] /\ sess' \in [Proc -> SUBSET Pair]
      /\ \A q \in Proc \ {p} : sess'[q] = sess[q]
  BY <1>1 DEF IInv, TypeOK, LocalOK
<1>5. CASE /\ usess' = [usess EXCEPT ![req[p].user] =
                          IF session[k] = None THEN @ \ {k} ELSE @]
           /\ UNCHANGED <<pc, rev, at>>
  <2>1. LocalOK' /\ Others(p)
    BY <1>2, <1>4, <1>5 DEF IInv, TypeOK, LocalOK, Others, ctx, rev
  <2>2. Mild /\ StoreOK'
    BY <1>2, <1>5 DEF IInv, TypeOK, StoreOK, Mild, db, jwt, hist
  <2>3. ControlAt(p)' /\ LateAt(p)' /\ RefersNext(p)
    BY <1>2, <1>4, <1>5 DEF IInv, HandlerInv, ControlAt, LateAt, RefersAt,
       RefersNext, Early, InRefresh, InAccess, InRevoke, PastCheck, ctx, rev
  <2> QED BY <1>2, <1>5, <2>1, <2>2, <2>3, MildInv DEF Early
<1>6. CASE /\ CallRevoke(p, k[1], "revoked", "prj_drop")
           /\ at' = [at EXCEPT ![p] = k]
           /\ UNCHANGED usess
  <2>1. LocalOK' /\ Others(p)
    BY <1>2, <1>3, <1>4, <1>6 DEF CallRevoke, IInv, TypeOK, LocalOK, Others, Label,
       ctx
  <2>2. Quiet
    BY <1>2, <1>6 DEF Quiet, redis
  <2> QED BY <1>2, <1>3, <1>4, <1>6, <2>1, <2>2, SweepCallInv
<1> QED BY <1>1, <1>5, <1>6

\* revoke_user_auth_state empties the indexes and returns, or goes on.
LEMMA AllClearInv ==
  ASSUME IInv, NEW p \in Proc, AllClear(p)
  PROVE  IInv'
<1>1. Mild
  BY DEF AllClear, Mild, IInv, TypeOK, StoreOK, jwt
<1>2. StoreOK'
  BY DEF AllClear, IInv, TypeOK, StoreOK, LocalOK, db, jwt
<1>3. pc[p] = "all_revoke"
  BY DEF AllClear
<1>4. CASE Finish(p)
  <2>1. LocalOK' /\ Others(p) /\ RefersNext(p) /\ ControlAt(p)' /\ LateAt(p)'
        /\ pc'[p] = "idle"
    BY <1>4, FinishLocal DEF IInv, TypeOK
  <2> QED BY <1>1, <1>2, <2>1, MildInv DEF Early
<1>5. CASE /\ pc' = [pc EXCEPT ![p] = "all_sessions"]
           /\ req' = [req EXCEPT ![p] =
                        Call("invalidate", req[p].user, None, 0, None, FALSE)]
           /\ UNCHANGED <<ctx, rev, loop, swept>>
  <2>1. Call("invalidate", req[p].user, None, 0, None, FALSE) \in Request
    BY <1>3, GenAssumption DEF IInv, HandlerInv, ControlAt, Call, Request, Op
  <2>2. LocalOK' /\ Others(p) /\ pc'[p] = "all_sessions"
    BY <1>5, <2>1 DEF IInv, TypeOK, LocalOK, Others, Label, ctx, rev, loop
  <2>3. /\ req'[p].user = req[p].user /\ req'[p].fam = None
        /\ req'[p].late = FALSE
    BY <1>5 DEF IInv, TypeOK, LocalOK, Call
  <2>4. ControlAt(p)' /\ LateAt(p)' /\ RefersNext(p)
    BY <1>3, <1>5, <2>2, <2>3, NoneAssumption DEF IInv, HandlerInv, ControlAt, LateAt,
       RefersAt, RefersNext, Early, InRefresh, InAccess, InRevoke, PastCheck, ctx, rev, loop
  <2> QED BY <1>1, <1>2, <2>2, <2>4, MildInv DEF Early
<1>6. CASE /\ pc' = [pc EXCEPT ![p] = "scan"]
           /\ keys' = [keys EXCEPT ![p] = {k \in Pair : session[k] # None
                                             /\ Owner[k[1]] = req[p].user}]
           /\ UNCHANGED <<req, ctx, item, mark, ret, loop, swept>>
  <2>1. LocalOK' /\ Others(p) /\ pc'[p] = "scan"
    BY <1>6 DEF IInv, TypeOK, LocalOK, Others, Label, ctx, loop
  <2>2. ControlAt(p)' /\ LateAt(p)' /\ RefersNext(p)
    BY <1>3, <1>6, <2>1 DEF IInv, HandlerInv, ControlAt, LateAt, RefersAt,
       RefersNext, Early, InRefresh, InAccess, InRevoke, PastCheck, ctx, loop
  <2> QED BY <1>1, <1>2, <2>1, <2>2, MildInv DEF Early
<1> QED BY <1>4, <1>5, <1>6 DEF AllClear

\* The sweeps return, and nothing is written.
LEMMA SweepReturnInv ==
  ASSUME IInv, NEW p \in Proc, ScanReturn(p) \/ ExceptReturn(p) \/ ProjectReturn(p)
  PROVE  IInv'
<1>1. Finish(p)
  BY DEF ScanReturn, ExceptReturn, ProjectReturn
<1>2. Mild
  BY DEF ScanReturn, ExceptReturn, ProjectReturn, Mild, IInv, TypeOK, StoreOK, redis,
     jwt, hist
<1>3. StoreOK'
  BY DEF ScanReturn, ExceptReturn, ProjectReturn, IInv, TypeOK, StoreOK, LocalOK,
     redis, db, jwt, hist
<1>4. LocalOK' /\ Others(p) /\ RefersNext(p) /\ ControlAt(p)' /\ LateAt(p)'
      /\ pc'[p] = "idle"
  BY <1>1, FinishLocal DEF IInv, TypeOK
<1> QED BY <1>2, <1>3, <1>4, MildInv DEF Early

\* A crash writes nothing.
LEMMA CrashInv ==
  ASSUME IInv, NEW p \in Proc, Crash(p)
  PROVE  IInv'
BY FinishInv DEF Crash, Quiet

-----------------------------------------------------------------------------
(* Sign-in: the writes of _issue_token_pair *)

\* Minting ids: the new family is written by this handler alone.
LEMMA SignInInv ==
  ASSUME IInv, NEW p \in Proc, NEW f \in Family, NEW s \in Scope, SignIn(p, f, s)
  PROVE  IInv'
<1>1. /\ pc[p] = "idle" /\ next[f] = 0 /\ next' = [next EXCEPT ![f] = 1]
      /\ claim' = [claim EXCEPT ![<<f, 1>>] = s]
      /\ UNCHANGED <<redis, db, held, aged, copy, child, rev, loop, dirty, rotated,
                     ended, swept>>
  BY DEF SignIn
<1>2. Owner[f] \in User
  BY OwnerAssumption
<1>3. /\ pc'[p] = "issue_session" /\ req'[p] = Call("login", Owner[f], f, 1, None, FALSE)
      /\ \A q \in Proc \ {p} : pc'[q] = pc[q] /\ req'[q] = req[q]
  BY DEF SignIn, IInv, TypeOK, LocalOK
<1>4. LocalOK'
  BY <1>2, GenAssumption DEF SignIn, IInv, TypeOK, LocalOK, Label, Request, Call, Op,
     rev, loop
<1>5. Others(p)
  BY <1>1, <1>3 DEF Others, rev, loop
<1>6. StoreOK'
  <2>1. claim' \in [Pair -> Scope \cup {None}]
    BY <1>1 DEF IInv, TypeOK, StoreOK
  <2>2. next' \in [Family -> 0..MaxGen]
    BY <1>1, GenAssumption DEF IInv, TypeOK, StoreOK
  <2> QED BY <1>1, <2>1, <2>2 DEF IInv, TypeOK, StoreOK, redis, db
<1>7. /\ \A g \in Family : next'[g] = IF g = f THEN 1 ELSE next[g]
      /\ \A q \in Proc, g \in Family :
           Writing(q, g)' <=> (q = p /\ g = f) \/ (q # p /\ Writing(q, g))
      /\ ~Public(f)
  BY <1>1, <1>3 DEF Writing, Early, Call, Public, IInv, TypeOK, StoreOK
<1>8. \A g \in Family : Public(g) => Public(g)'
  BY <1>1, <1>7 DEF Public, redis
<1>9. OneWriter'
  <2>1. \A q \in Proc : ~Writing(q, f)
    BY <1>1 DEF IInv, OneWriter
  <2> QED BY <1>1, <1>3, <1>7, <2>1 DEF IInv, OneWriter, Call, Stored, redis
<1>10. Referred'
  BY <1>1, <1>8 DEF IInv, TypeOK, StoreOK, Referred, Pair, redis
<1>11. StoreInv'
  <2>1. \A r \in rotated : r[1] \in Family /\ r[1] # f
    BY <1>7 DEF IInv, TypeOK, StoreOK, Referred
  <2>2. Spent'
    BY <1>1, <1>7, <2>1 DEF IInv, StoreInv, Spent, redis
  <2> QED BY <1>1, <1>7, <2>2 DEF IInv, StoreInv, LastIsCurrent, Minted, RotatedOnce,
             EndedIsFinal, redis
<1>12. Watched'
  BY <1>1, <1>3 DEF IInv, Watched, Me, redis
<1>13. ControlAt(p)' /\ LateAt(p)'
  BY <1>2, <1>3, GenAssumption DEF ControlAt, LateAt, Call, Early, InRefresh, InAccess,
     InRevoke, PastCheck, Gen
<1>14. RefersAt(p)'
  BY <1>1, <1>3, <1>8 DEF IInv, HandlerInv, RefersAt, TypeOK, LocalOK, Early, rev,
     loop, Pair
<1>15. HandlerInv'
  BY <1>1, <1>5, <1>8, <1>13, <1>14, OtherHandlers
<1> QED BY <1>4, <1>6, <1>9, <1>10, <1>11, <1>12, <1>15 DEF IInv, TypeOK

\* A step of p that touches family f is noticed by whoever WATCHes it.
LEMMA WatchedStays ==
  ASSUME IInv, NEW p \in Proc, NEW f \in Family, Others(p), Touch(f),
         pc'[p] # "ref_exec",
         \A g \in Family \ {f} : family'[g] = family[g],
         \A k \in Pair : k[1] # f => token'[k] = token[k]
  PROVE  Watched'
<1> SUFFICES ASSUME NEW q \in Proc, pc'[q] = "ref_exec", q \notin dirty'
             PROVE  (/\ family[req[q].fam].status = "active"
                     /\ family[req[q].fam].cur = req[q].gen
                     /\ token[Me(q)].st = "current")'
  BY DEF Watched
<1>1. q # p /\ pc[q] = "ref_exec" /\ req'[q] = req[q]
  BY DEF Others
<1>2. req[q].fam \in Family /\ req[q].gen \in Gen
  BY <1>1 DEF IInv, HandlerInv, ControlAt, InRefresh
<1>3. q \notin dirty /\ req[q].fam # f
  BY <1>1 DEF Touch, Watchers
<1>4. Me(q) \in Pair /\ Me(q)' = Me(q) /\ Me(q)[1] # f
  BY <1>1, <1>2, <1>3 DEF Me, Pair
<1> QED BY <1>1, <1>2, <1>3, <1>4 DEF IInv, Watched

\* The family, and then its first token, are written by the sign-in alone.
LEMMA IssueWriteInv ==
  ASSUME IInv, NEW p \in Proc, IssueFamily(p) \/ IssueToken(p)
  PROVE  IInv'
<1> DEFINE f == req[p].fam
<1>1. /\ pc[p] \in {"issue_family", "issue_token"} /\ Touch(f) /\ UNCHANGED local
      /\ UNCHANGED <<session, anchor, tomb, usess, ufam, db, jwt, aged, hist>>
  BY DEF IssueFamily, IssueToken, Goto
<1>2. /\ f \in Family /\ Writing(p, f) /\ next[f] = 1 /\ req[p].gen = 1 /\ ~Public(f)
      /\ Me(p) = <<f, 1>>
  BY <1>1 DEF IInv, HandlerInv, ControlAt, OneWriter, Writing, Early, Public, Me
<1>3. /\ LocalOK' /\ Others(p) /\ pc'[p] \in {"issue_token", "issue_anchor"}
  BY <1>1 DEF IssueFamily, IssueToken, Goto, IInv, TypeOK, LocalOK, Others, Label,
     local, ctx, rev, loop
<1>4. /\ \A g \in Family \ {f} : family'[g] = family[g]
      /\ \A k \in Pair : k # <<f, 1>> => token'[k] = token[k]
      /\ \/ family' = family
         \/ family'[f].status = "active" /\ family'[f].cur = 1
      /\ family' \in [Family -> FamilyRecord] /\ token' \in [Pair -> TokenRecord]
  <2>1. CASE IssueFamily(p)
    <3>1. [status |-> "active", cur |-> 1, scope |-> scope[p]] \in FamilyRecord
      BY GenAssumption DEF FamilyRecord, IInv, TypeOK, LocalOK
    <3> QED BY <1>2, <2>1, <3>1 DEF IssueFamily, IInv, TypeOK, StoreOK
  <2>2. CASE IssueToken(p)
    <3>1. [st |-> "current", child |-> 0] \in TokenRecord
      BY GenAssumption DEF TokenRecord
    <3> QED BY <1>2, <2>2, <3>1 DEF IssueToken, IInv, TypeOK, StoreOK
  <2> QED BY <2>1, <2>2
<1>5. StoreOK'
  BY <1>1, <1>4 DEF IInv, TypeOK, StoreOK, Touch, Watchers, db, jwt, hist
<1>6. \A g \in Family : Public(g) => Public(g)'
  BY <1>1, <1>3, <1>4, PublicStays DEF Early, hist, local
<1>7. OneWriter'
  <2>1. \A q \in Proc, g \in Family : Writing(q, g)' <=> Writing(q, g)
    BY <1>1, <1>2, <1>3 DEF Writing, Others, Early, local
  <2>2. \A g \in Family : family[g].status = "active" => family'[g].status = "active"
    BY <1>4
  <2>3. family'[f].status = "active"
    <3>1. CASE IssueFamily(p)
      BY <1>2, <3>1 DEF IssueFamily, IInv, TypeOK, StoreOK
    <3>2. CASE IssueToken(p)
      BY <1>2, <1>4, <3>2 DEF IssueToken, Goto, IInv, OneWriter, Stored
    <3> QED BY <3>1, <3>2
  <2>4. \A q \in Proc, g \in Family : Writing(q, g) /\ q # p => g # f
    BY <1>2 DEF IInv, OneWriter
  <2>5. \A g \in Family : Writing(p, g) => g = f
    BY DEF Writing
  <2> QED BY <1>1, <1>3, <2>1, <2>2, <2>3, <2>4, <2>5
          DEF IInv, OneWriter, Others, local, hist
<1>8. Referred'
  BY <1>1, <1>6 DEF IInv, TypeOK, StoreOK, Referred, Pair, jwt, hist
<1>9. Watched'
  BY <1>1, <1>2, <1>3, <1>4, WatchedStays
<1>10. LastIsCurrent' /\ Minted' /\ RotatedOnce'
  BY <1>1, <1>2, <1>4 DEF IInv, StoreInv, LastIsCurrent, Minted, RotatedOnce, hist
<1>11. EndedIsFinal'
  <2>1. f \notin ended
    BY <1>2 DEF IInv, Referred
  <2> QED BY <1>1, <1>4, <2>1 DEF IInv, TypeOK, StoreOK, StoreInv, EndedIsFinal, hist
<1>12. Spent'
  <2>1. \A r \in rotated : r[1] \in Family /\ r[2] \in Gen /\ r[1] # f
    BY <1>2 DEF IInv, TypeOK, StoreOK, Referred
  <2>2. \A r \in rotated : <<r[1], r[2]>> \in Pair /\ <<r[1], r[2]>> # <<f, 1>>
    BY <2>1 DEF Pair
  <2> QED BY <1>1, <1>4, <2>2 DEF IInv, StoreInv, Spent, hist
<1>13. ControlAt(p)' /\ LateAt(p)' /\ RefersAt(p)'
  <2>1. ControlAt(p)' /\ LateAt(p)'
    BY <1>1, <1>3 DEF IInv, HandlerInv, ControlAt, LateAt, Early, InRefresh,
       InAccess, InRevoke, PastCheck, local, ctx, rev, loop
  <2>2. RefersAt(p)'
    BY <1>1, <1>3, <1>6 DEF IInv, HandlerInv, RefersAt, TypeOK, LocalOK, Early, Pair,
       local, rev, loop
  <2> QED BY <2>1, <2>2
<1>14. HandlerInv'
  BY <1>1, <1>3, <1>6, <1>13, OtherHandlers DEF hist
<1> QED BY <1>3, <1>5, <1>7, <1>8, <1>9, <1>10, <1>11, <1>12, <1>14
        DEF IInv, TypeOK, StoreInv

\* With the pair in the session index the family becomes public.
LEMMA IssueSessionsIndexInv ==
  ASSUME IInv, NEW p \in Proc, IssueSessionsIndex(p)
  PROVE  IInv'
<1> DEFINE f == req[p].fam
<1>1. /\ pc[p] = "issue_sessions_index" /\ UNCHANGED local
      /\ usess' = [usess EXCEPT ![req[p].user] = @ \cup {Me(p)}]
      /\ UNCHANGED <<session, family, token, anchor, tomb, ufam, db, jwt, aged,
                     dirty, hist>>
  BY DEF IssueSessionsIndex, Goto
<1>2. /\ f \in Family /\ Writing(p, f) /\ next[f] = 1 /\ family[f].status = "active"
      /\ \A q \in Proc : Writing(q, f) => q = p
      /\ Me(p) \in Pair /\ Me(p)[1] = f
  BY <1>1 DEF IInv, HandlerInv, ControlAt, OneWriter, Writing, Early, Stored, Me, Pair
<1>3. LocalOK' /\ Others(p) /\ pc'[p] = "issue_families_index"
  BY <1>1 DEF IssueSessionsIndex, Goto, IInv, TypeOK, LocalOK, Others, Label, local,
     ctx, rev, loop
<1>4. StoreOK'
  BY <1>1, <1>2 DEF IInv, TypeOK, StoreOK, db, jwt, hist
<1>5. \A g \in Family : Public(g) => Public(g)'
  BY <1>1, <1>3, PublicStays DEF Early, hist
<1>6. Public(f)'
  BY <1>1, <1>2, <1>3 DEF Public, Writing, Others, Early, hist, local
<1>7. OneWriter'
  BY <1>1, <1>3 DEF IInv, OneWriter, Writing, Others, Early, local, hist
<1>8. Referred'
  <2>1. \A u \in User : \A k \in usess'[u] : k \in usess[u] \/ k = Me(p)
    BY <1>1 DEF IInv, TypeOK, StoreOK
  <2>2. \A u \in User : \A k \in usess'[u] : Public(k[1])'
    BY <1>1, <1>2, <1>5, <1>6, <2>1 DEF IInv, TypeOK, StoreOK, Referred, Pair, local
  <2> QED BY <1>1, <1>5, <2>2 DEF IInv, TypeOK, StoreOK, Referred, Pair, jwt, hist
<1>9. Watched' /\ StoreInv'
  BY <1>1, <1>3 DEF IInv, Watched, StoreInv, LastIsCurrent, Minted, Spent, RotatedOnce,
     EndedIsFinal, Others, Me, hist
<1>10. ControlAt(p)' /\ LateAt(p)'
  BY <1>1, <1>3 DEF IInv, HandlerInv, ControlAt, LateAt, Early, InRefresh, InAccess,
     InRevoke, PastCheck, local
<1>11. RefersAt(p)'
  BY <1>1, <1>5, <1>6 DEF IInv, HandlerInv, RefersAt, TypeOK, LocalOK, Pair, local,
     rev, loop
<1>12. HandlerInv'
  BY <1>1, <1>3, <1>5, <1>10, <1>11, OtherHandlers DEF hist
<1> QED BY <1>3, <1>4, <1>7, <1>8, <1>9, <1>12 DEF IInv, TypeOK

\* The response to a sign-in or to a rotation delivers a pair.
LEMMA DeliverInv ==
  ASSUME IInv, NEW p \in Proc, IssueFamiliesIndex(p) \/ Rotated(p)
  PROVE  IInv'
<1> DEFINE f == req[p].fam
<1>1. /\ pc[p] \in {"issue_families_index", "rotated"} /\ Finish(p)
      /\ UNCHANGED <<session, family, token, anchor, tomb, usess, db, claim, aged,
                     dirty, hist>>
  BY DEF IssueFamiliesIndex, Rotated, redis
<1>2. f \in Family /\ req[p].gen \in Gen /\ Public(f) /\ req[p].user \in User
  BY <1>1 DEF IInv, HandlerInv, ControlAt, RefersAt, Early
<1>3. PICK k \in Pair : k[1] = f /\ held' = held \cup {k}
  <2>1. CASE IssueFamiliesIndex(p)
    BY <1>2, <2>1 DEF IssueFamiliesIndex, Me, Pair
  <2>2. CASE Rotated(p)
    <3>1. child[p] \in Gen
      BY <2>2 DEF Rotated, IInv, HandlerInv, ControlAt
    <3> QED BY <1>2, <2>2, <3>1 DEF Rotated, Pair
  <2> QED BY <2>1, <2>2
<1>4. /\ ufam' \in [User -> SUBSET Family]
      /\ \A u \in User : \A g \in ufam'[u] : g \in ufam[u] \/ g = f
  BY <1>2 DEF IssueFamiliesIndex, Rotated, IInv, TypeOK, StoreOK, redis
<1>5. LocalOK' /\ Others(p) /\ RefersNext(p) /\ ControlAt(p)' /\ LateAt(p)'
      /\ pc'[p] = "idle"
  BY <1>1, FinishLocal DEF IInv, TypeOK
<1>6. StoreOK'
  BY <1>1, <1>3, <1>4 DEF IInv, TypeOK, StoreOK, db, hist
<1>7. \A g \in Family : Public(g) => Public(g)'
  BY <1>1, <1>5, PublicStays DEF Early, hist
<1>8. OneWriter'
  BY <1>1, <1>5 DEF IInv, OneWriter, Writing, Others, Early, hist
<1>9. Referred'
  BY <1>1, <1>2, <1>3, <1>4, <1>7 DEF IInv, TypeOK, StoreOK, Referred, Pair, hist
<1>10. Watched' /\ StoreInv'
  BY <1>1, <1>5 DEF IInv, Watched, StoreInv, LastIsCurrent, Minted, Spent, RotatedOnce,
     EndedIsFinal, Others, Me, hist
<1>11. RefersAt(p)'
  BY <1>5, <1>7 DEF RefersAt, RefersNext, LocalOK, Pair
<1>12. HandlerInv'
  BY <1>1, <1>5, <1>7, <1>11, OtherHandlers DEF hist
<1> QED BY <1>5, <1>6, <1>8, <1>9, <1>10, <1>12 DEF IInv, TypeOK

-----------------------------------------------------------------------------
(* Rotation: WATCH and EXEC *)

\* WATCH: the handler sees exactly what EXEC will rely on.
LEMMA RefreshWatchInv ==
  ASSUME IInv, NEW p \in Proc, RefreshWatch(p)
  PROVE  IInv'
<1>1. /\ pc[p] = "ref_watch" /\ dirty' = dirty \ {p}
      /\ UNCHANGED <<redis, db, jwt, aged, local, hist>>
  BY DEF RefreshWatch
<1>2. /\ LocalOK' /\ Others(p) /\ pc'[p] \in {"ref_exec", "cls_family"}
      /\ pc'[p] = "ref_exec" => /\ family[req[p].fam].status = "active"
                                /\ family[req[p].fam].cur = req[p].gen
                                /\ token[Me(p)].st = "current"
  BY <1>1 DEF RefreshWatch, IInv, TypeOK, LocalOK, Others, Label, local, ctx, rev, loop
<1>3. StoreOK'
  BY <1>1 DEF IInv, TypeOK, StoreOK, redis, db, jwt, hist
<1>4. \A g \in Family : Public(g) => Public(g)'
  BY <1>1, <1>2, PublicStays DEF Early, hist, redis
<1>5. OneWriter'
  <2>1. \A q \in Proc, g \in Family :
          Writing(q, g)' => Writing(q, g) /\ req'[q] = req[q] /\ pc'[q] = pc[q]
    BY <1>1, <1>2 DEF Writing, Others, Early
  <2> QED BY <1>1, <2>1 DEF IInv, OneWriter, redis, hist
<1>6. Referred'
  BY <1>1, <1>4 DEF IInv, TypeOK, StoreOK, Referred, Pair, redis, jwt, hist
<1>7. Watched'
  <2> SUFFICES ASSUME NEW q \in Proc, pc'[q] = "ref_exec", q \notin dirty'
               PROVE  /\ family[req[q].fam].status = "active"
                      /\ family[req[q].fam].cur = req[q].gen
                      /\ token[Me(q)].st = "current"
    BY <1>1 DEF Watched, Me, redis, local
  <2>1. CASE q = p
    BY <1>2, <2>1
  <2>2. CASE q # p
    BY <1>1, <1>2, <2>2 DEF IInv, Watched, Others
  <2> QED BY <2>1, <2>2
<1>8. StoreInv'
  BY <1>1 DEF IInv, StoreInv, LastIsCurrent, Minted, Spent, RotatedOnce, EndedIsFinal,
     redis, hist
<1>9. ControlAt(p)' /\ LateAt(p)'
  BY <1>1, <1>2 DEF IInv, HandlerInv, ControlAt, LateAt, Early, InRefresh, InAccess,
     InRevoke, PastCheck, local, ctx
<1>10. RefersAt(p)'
  BY <1>1, <1>2, <1>4 DEF IInv, HandlerInv, RefersAt, TypeOK, LocalOK, Pair, Early, local,
     rev, loop
<1>11. HandlerInv'
  BY <1>1, <1>2, <1>4, <1>9, <1>10, OtherHandlers DEF hist
<1> QED BY <1>2, <1>3, <1>5, <1>6, <1>7, <1>8, <1>11 DEF IInv, TypeOK

\* The part of EXEC with untouched keys.
Exchanged(p, f, c) ==
    /\ pc[p] = "ref_exec" /\ p \notin dirty
    /\ f = req[p].fam /\ c = next[f] + 1
    /\ pc' = [pc EXCEPT ![p] = "rotated"]
    /\ token' = [token EXCEPT ![Me(p)] = [st |-> "used", child |-> c],
                              ![<<f, c>>] = [st |-> "current", child |-> 0]]
    /\ family' = [family EXCEPT ![f] = [copy[p] EXCEPT !.cur = c, !.scope = scope[p]]]
    /\ session' = [session EXCEPT ![<<f, c>>] = scope[p], ![Me(p)] = None]
    /\ anchor' = [anchor EXCEPT ![f] = AnchorPayload(p, c)]
    /\ usess' = [usess EXCEPT ![req[p].user] = (@ \ {Me(p)}) \cup {<<f, c>>}]
    /\ ufam' = [ufam EXCEPT ![req[p].user] = @ \cup {f}]
    /\ claim' = [claim EXCEPT ![<<f, c>>] = scope[p]]
    /\ next' = [next EXCEPT ![f] = c]
    /\ rotated' = rotated \cup {<<f, req[p].gen, c>>}
    /\ child' = [child EXCEPT ![p] = c]
    /\ Touch(f)
    /\ UNCHANGED <<tomb, db, held, aged, req, scope, copy, rev, loop, ended, swept>>

\* EXEC finds the family live and its own token current, so that the token was
\* not exchanged before and the family has not ended.
LEMMA ExchangeFacts ==
  ASSUME IInv, NEW p \in Proc, NEW f, NEW c, Exchanged(p, f, c)
  PROVE  /\ f \in Family /\ req[p].gen \in Gen /\ c \in Gen /\ c = req[p].gen + 1
         /\ next[f] = req[p].gen /\ Public(f) /\ f \notin ended
         /\ Me(p) = <<f, req[p].gen>> /\ Me(p) \in Pair /\ <<f, c>> \in Pair
         /\ req[p].user \in User /\ ~req[p].late
         /\ family[f].status = "active" /\ copy[p].status = "active"
         /\ \A r \in rotated : r[1] = f => r[2] < req[p].gen
<1>1. /\ pc[p] = "ref_exec" /\ p \notin dirty /\ f = req[p].fam
      /\ c = next[f] + 1
  BY DEF Exchanged
<1>2. /\ f \in Family /\ req[p].gen \in Gen /\ Public(f) /\ req[p].user \in User
      /\ ~req[p].late /\ req[p].gen < MaxGen /\ copy[p].status = "active"
  BY <1>1 DEF IInv, HandlerInv, ControlAt, RefersAt, LateAt, Early, InRefresh, PastCheck
<1>3. /\ family[f].status = "active" /\ family[f].cur = req[p].gen
  BY <1>1 DEF IInv, Watched
<1>4. next[f] = req[p].gen
  BY <1>2, <1>3 DEF IInv, StoreInv, LastIsCurrent
<1>5. c = req[p].gen + 1 /\ c \in Gen
  BY <1>1, <1>2, <1>4, GenAssumption DEF Gen
<1>6. f \notin ended
  BY <1>3 DEF IInv, StoreInv, EndedIsFinal
<1>7. ASSUME NEW r \in rotated, r[1] = f
      PROVE  r[2] < req[p].gen
  <2>1. r[2] \in Nat /\ r[3] \in Nat
    BY DEF IInv, TypeOK, StoreOK, Gen
  <2>2. r[2] < r[3] /\ r[3] <= next[f]
    BY <1>7 DEF IInv, StoreInv, Spent
  <2> QED BY <1>2, <1>4, <2>1, <2>2 DEF Gen
<1> QED BY <1>1, <1>2, <1>3, <1>4, <1>5, <1>6, <1>7 DEF Me, Pair

\* A successful EXEC preserves the invariant.
LEMMA ExchangeInv ==
  ASSUME IInv, NEW p \in Proc, NEW f, NEW c, Exchanged(p, f, c)
  PROVE  IInv'
<1> DEFINE n == req[p].gen
<1>1. /\ f \in Family /\ n \in Gen /\ c \in Gen /\ c = n + 1
      /\ next[f] = n /\ Public(f) /\ f \notin ended
      /\ Me(p) = <<f, n>> /\ Me(p) \in Pair /\ <<f, c>> \in Pair
      /\ req[p].user \in User /\ ~req[p].late
      /\ family[f].status = "active" /\ copy[p].status = "active"
      /\ \A r \in rotated : r[1] = f => r[2] < n
  BY ExchangeFacts
<1>2. /\ UNCHANGED <<tomb, db, held, aged, req, scope, copy, rev, loop, ended, swept>>
      /\ Touch(f) /\ next' = [next EXCEPT ![f] = c]
      /\ rotated' = rotated \cup {<<f, n, c>>}
  BY DEF Exchanged
<1>3. LocalOK' /\ Others(p) /\ pc'[p] = "rotated" /\ child'[p] = c
  BY <1>1, <1>2 DEF Exchanged, IInv, TypeOK, LocalOK, Others, Label, Gen, rev, loop
<1>4. /\ family' \in [Family -> FamilyRecord]
      /\ family'[f].status = "active" /\ family'[f].cur = c
      /\ \A g \in Family \ {f} : family'[g] = family[g]
  <2>1. [copy[p] EXCEPT !.cur = c, !.scope = scope[p]] \in FamilyRecord
    <3>1. copy[p] \in FamilyRecord /\ scope[p] \in Scope \cup {None}
      BY DEF IInv, TypeOK, LocalOK
    <3>2. c \in 0..MaxGen
      BY <1>1 DEF Gen
    <3> QED BY <3>1, <3>2 DEF FamilyRecord
  <2>2. [copy[p] EXCEPT !.cur = c, !.scope = scope[p]].status = "active"
        /\ [copy[p] EXCEPT !.cur = c, !.scope = scope[p]].cur = c
    BY <1>1 DEF IInv, TypeOK, LocalOK, FamilyRecord
  <2> QED BY <1>1, <2>1, <2>2 DEF Exchanged, IInv, TypeOK, StoreOK
<1>5. /\ token' \in [Pair -> TokenRecord] /\ token'[<<f, n>>].st # "current"
      /\ \A k \in Pair : k # <<f, n>> /\ k # <<f, c>> => token'[k] = token[k]
  <2>1. /\ [st |-> "used", child |-> c] \in TokenRecord
        /\ [st |-> "current", child |-> 0] \in TokenRecord
    BY <1>1, GenAssumption DEF TokenRecord, Gen
  <2>2. <<f, n>> # <<f, c>>
    BY <1>1 DEF Gen
  <2> QED BY <1>1, <2>1, <2>2 DEF Exchanged, IInv, TypeOK, StoreOK
<1>6. /\ session' \in [Pair -> Scope \cup {None}]
      /\ claim' \in [Pair -> Scope \cup {None}]
      /\ anchor' \in [Family -> AnchorRecord]
  <2>1. scope[p] \in Scope \cup {None}
    BY DEF IInv, TypeOK, LocalOK
  <2>2. AnchorPayload(p, c) \in AnchorRecord
    BY <1>1, <2>1 DEF AnchorPayload, AnchorRecord, Gen
  <2> QED BY <2>1, <2>2 DEF Exchanged, IInv, TypeOK, StoreOK
<1>7. /\ usess' \in [User -> SUBSET Pair] /\ ufam' \in [User -> SUBSET Family]
      /\ \A u \in User : \A k \in usess'[u] : k \in usess[u] \/ k = <<f, c>>
      /\ \A u \in User : \A g \in ufam'[u] : g \in ufam[u] \/ g = f
  BY <1>1 DEF Exchanged, IInv, TypeOK, StoreOK
<1>8. /\ next' \in [Family -> 0..MaxGen] /\ next'[f] = c
      /\ \A g \in Family \ {f} : next'[g] = next[g]
  BY <1>1, <1>2 DEF IInv, TypeOK, StoreOK, Gen
<1>9. StoreOK'
  <2>1. rotated' \in SUBSET (Family \X Gen \X Gen) /\ dirty' \in SUBSET Proc
    BY <1>1, <1>2 DEF IInv, TypeOK, StoreOK, Touch, Watchers
  <2> QED BY <1>2, <1>4, <1>5, <1>6, <1>7, <1>8, <2>1 DEF IInv, TypeOK, StoreOK, db
<1>10. \A g \in Family : Public(g) => Public(g)'
  <2>1. \A g \in Family : next[g] # 0 => next'[g] # 0
    BY <1>1, <1>8 DEF Gen
  <2>2. pc'[p] \notin Early
    BY <1>3 DEF Early
  <2> QED BY <2>1, <2>2, <1>2, <1>3, <1>4 DEF Public, Writing, Others
<1>11. OneWriter'
  <2>1. \A q \in Proc : ~Writing(q, f)
    BY <1>1 DEF Public
  <2>2. \A q \in Proc, g \in Family :
          Writing(q, g)' => Writing(q, g) /\ req'[q] = req[q] /\ pc'[q] = pc[q]
    BY <1>2, <1>3 DEF Writing, Early, Others
  <2> QED BY <1>4, <1>8, <2>1, <2>2 DEF IInv, OneWriter
<1>12. Referred'
  <2>1. \A u \in User : \A k \in usess'[u] : Public(k[1])'
    BY <1>1, <1>7, <1>10 DEF IInv, TypeOK, StoreOK, Referred, Pair
  <2>2. \A r \in rotated' : Public(r[1])'
    BY <1>1, <1>2, <1>10 DEF IInv, TypeOK, StoreOK, Referred
  <2> QED BY <1>1, <1>2, <1>7, <1>10, <2>1, <2>2 DEF IInv, TypeOK, StoreOK, Referred,
             Pair
<1>13. Watched'
  <2>1. \A k \in Pair : k[1] # f => token'[k] = token[k]
    BY <1>5
  <2> QED BY <1>1, <1>2, <1>3, <1>4, <2>1, WatchedStays
<1>14. LastIsCurrent' /\ Minted' /\ EndedIsFinal'
  BY <1>1, <1>2, <1>4, <1>8 DEF IInv, TypeOK, StoreOK, StoreInv, LastIsCurrent, Minted,
     EndedIsFinal, Gen
<1>15. RotatedOnce'
  <2>1. \A r \in rotated : r[1] = f => r[2] # n
    BY <1>1 DEF IInv, TypeOK, StoreOK, Gen
  <2> QED BY <1>2, <2>1 DEF IInv, StoreInv, RotatedOnce
<1>16. Spent'
  <2> SUFFICES ASSUME NEW r \in rotated'
               PROVE  /\ r[2] < r[3] /\ r[3] <= next'[r[1]]
                      /\ token'[<<r[1], r[2]>>].st # "current"
    BY DEF Spent
  <2>1. CASE r = <<f, n, c>>
    BY <1>1, <1>5, <1>8, <2>1 DEF Gen
  <2>2. CASE r \in rotated
    <3>1. /\ r[1] \in Family /\ r[2] \in Gen /\ r[3] \in Gen
          /\ r[2] < r[3] /\ r[3] <= next[r[1]]
          /\ token[<<r[1], r[2]>>].st # "current"
      BY <2>2 DEF IInv, TypeOK, StoreOK, StoreInv, Spent
    <3>2. r[3] <= next'[r[1]]
      BY <1>1, <1>8, <3>1 DEF Gen
    <3>3. <<r[1], r[2]>> \in Pair /\ <<r[1], r[2]>> # <<f, n>>
          /\ <<r[1], r[2]>> # <<f, c>>
      BY <1>1, <2>2, <3>1 DEF Pair, Gen
    <3> QED BY <1>5, <3>1, <3>2, <3>3
  <2> QED BY <1>2, <2>1, <2>2
<1>17. ControlAt(p)' /\ LateAt(p)'
  BY <1>1, <1>2, <1>3 DEF ControlAt, LateAt, Early, InRefresh, InAccess, InRevoke,
     PastCheck, Exchanged
<1>18. RefersAt(p)'
  BY <1>1, <1>2, <1>3, <1>10 DEF Exchanged, IInv, HandlerInv, RefersAt, TypeOK, LocalOK,
     Pair, rev, loop
<1>19. HandlerInv'
  BY <1>2, <1>3, <1>10, <1>17, <1>18, OtherHandlers
<1> QED BY <1>3, <1>9, <1>11, <1>12, <1>13, <1>14, <1>15, <1>16, <1>19
        DEF IInv, TypeOK, StoreInv

\* EXEC, whether or not a WATCHed key was written.
LEMMA RefreshExecInv ==
  ASSUME IInv, NEW p \in Proc, RefreshExec(p)
  PROVE  IInv'
<1>1. CASE Exchanged(p, req[p].fam, next[req[p].fam] + 1)
  BY <1>1, ExchangeInv
<1>2. CASE Goto(p, "ref_exec", "cls_family") /\ Quiet /\ UNCHANGED local
  <2>1. LocalOK' /\ Others(p) /\ pc'[p] = "cls_family" /\ pc[p] = "ref_exec"
    BY <1>2 DEF Goto, IInv, TypeOK, LocalOK, Others, Label, local, ctx, rev, loop
  <2>2. ControlAt(p)' /\ LateAt(p)' /\ RefersNext(p)
    BY <1>2, <2>1 DEF IInv, HandlerInv, ControlAt, LateAt, RefersAt, RefersNext, Early,
       InRefresh, InAccess, InRevoke, PastCheck, local, ctx, rev, loop
  <2> QED BY <1>2, <2>1, <2>2, QuietIsMild, MildInv DEF Early
<1> QED BY <1>1, <1>2 DEF RefreshExec, Exchanged, Goto, Quiet

-----------------------------------------------------------------------------
(* The end of a family *)

\* The SET that ends a family: every rotation that WATCHes it is stopped.
LEMMA RevokeMarkInv ==
  ASSUME IInv, NEW p \in Proc, RevokeMark(p)
  PROVE  IInv'
<1> DEFINE f == item[p]
<1>1. /\ pc[p] = "rev_mark" /\ ended' = ended \cup {f} /\ Touch(f) /\ UNCHANGED local
      /\ UNCHANGED <<session, token, anchor, tomb, usess, ufam, db, jwt, aged,
                     next, rotated, swept>>
  BY DEF RevokeMark, Goto
<1>2. f \in Family /\ Public(f)
  BY <1>1 DEF IInv, HandlerInv, ControlAt, RefersAt, InRevoke
<1>3. LocalOK' /\ Others(p) /\ pc'[p] = "rev_tomb"
  BY <1>1 DEF RevokeMark, Goto, IInv, TypeOK, LocalOK, Others, Label, local, ctx, rev,
     loop
<1>4. /\ family' \in [Family -> FamilyRecord] /\ family'[f].status # "active"
      /\ \A g \in Family \ {f} : family'[g] = family[g]
  <2>1. /\ [copy[p] EXCEPT !.status = mark[p]] \in FamilyRecord
        /\ [copy[p] EXCEPT !.status = mark[p]].status # "active"
    <3>1. copy[p] \in FamilyRecord /\ mark[p] \in {"revoked", "reused"}
      BY DEF IInv, TypeOK, LocalOK
    <3> QED BY <3>1 DEF FamilyRecord
  <2> QED BY <1>2, <2>1 DEF RevokeMark, IInv, TypeOK, StoreOK
<1>5. StoreOK'
  BY <1>1, <1>2, <1>4 DEF IInv, TypeOK, StoreOK, Touch, Watchers, db, jwt
<1>6. \A g \in Family : Public(g) => Public(g)'
  BY <1>1, <1>3, <1>4, PublicStays DEF Early
<1>7. OneWriter'
  <2>1. \A q \in Proc : ~Writing(q, f)
    BY <1>2 DEF Public
  <2>2. \A q \in Proc, g \in Family :
          Writing(q, g)' => Writing(q, g) /\ req'[q] = req[q] /\ pc'[q] = pc[q]
    BY <1>1, <1>3 DEF Writing, Others, Early, local
  <2> QED BY <1>1, <1>4, <2>1, <2>2 DEF IInv, OneWriter
<1>8. Referred'
  BY <1>1, <1>2, <1>6 DEF IInv, TypeOK, StoreOK, Referred, Pair, jwt
<1>9. Watched'
  BY <1>1, <1>2, <1>3, <1>4, WatchedStays
<1>10. StoreInv'
  BY <1>1, <1>2, <1>4 DEF IInv, TypeOK, StoreOK, StoreInv, LastIsCurrent, Minted, Spent,
     RotatedOnce, EndedIsFinal, Public
<1>11. ControlAt(p)' /\ LateAt(p)'
  BY <1>1, <1>3 DEF IInv, HandlerInv, ControlAt, LateAt, Early, InRefresh, InAccess,
     InRevoke, PastCheck, local, ctx, rev
<1>12. RefersAt(p)'
  BY <1>1, <1>3, <1>6 DEF IInv, HandlerInv, RefersAt, TypeOK, LocalOK, Pair, Early,
     local, rev, loop
<1>13. HandlerInv'
  BY <1>1, <1>3, <1>6, <1>11, <1>12, OtherHandlers
<1> QED BY <1>3, <1>5, <1>7, <1>8, <1>9, <1>10, <1>13 DEF IInv, TypeOK

\* Steps of the environment move no handler.
LEMMA EnvironmentHandlers ==
  ASSUME IInv, UNCHANGED <<pc, local, next>>, ended \subseteq ended',
         \A f \in Family : \/ family'[f] = family[f]
                           \/ f \in ended' /\ \A p \in Proc : ~Writing(p, f)
  PROVE  /\ LocalOK' /\ OneWriter' /\ HandlerInv'
         /\ \A f \in Family : Public(f) => Public(f)'
<1>1. LocalOK' /\ OneWriter'
  BY DEF IInv, TypeOK, LocalOK, OneWriter, Writing, local, ctx, rev, loop
<1>2. \A f \in Family : Public(f) => Public(f)'
  BY DEF Public, Writing, local
<1>3. \A p \in Proc : ControlAt(p)' /\ LateAt(p)'
  BY DEF IInv, HandlerInv, ControlAt, LateAt, local, ctx, rev
<1>4. \A p \in Proc : RefersAt(p)'
  BY <1>2 DEF IInv, HandlerInv, RefersAt, TypeOK, LocalOK, Pair, local, rev, loop
<1> QED BY <1>1, <1>2, <1>3, <1>4 DEF HandlerInv

\* Expiry of a record that the proof says nothing about, and database changes.
LEMMA OutsideInv ==
  ASSUME IInv, UNCHANGED <<family, token, usess, ufam, held, dirty, pc, local, hist>>,
         StoreOK'
  PROVE  IInv'
<1>1. LocalOK' /\ OneWriter' /\ HandlerInv' /\ \A f \in Family : Public(f) => Public(f)'
  BY EnvironmentHandlers DEF hist
<1>2. Referred'
  BY <1>1 DEF IInv, TypeOK, StoreOK, Referred, Pair, hist
<1>3. Watched' /\ StoreInv'
  BY DEF IInv, Watched, Me, StoreInv, LastIsCurrent, Minted, Spent, RotatedOnce,
     EndedIsFinal, local, hist
<1> QED BY <1>1, <1>2, <1>3 DEF IInv, TypeOK

\* Expiry of the records of family f: the rotations that WATCH them notice.
LEMMA ExpiryInv ==
  ASSUME IInv, NEW f \in Family, Touch(f), StoreOK',
         UNCHANGED <<usess, ufam, held, pc, local, next, rotated>>,
         \/ ended' = ended
         \/ ended' = ended \cup {f} /\ Public(f) /\ family'[f] = NoFamily,
         \A g \in Family : \/ family'[g] = family[g]
                           \/ g = f /\ family'[g] = NoFamily /\ ended' # ended
                           \/ g = f /\ f \in ended /\ Public(f) /\ family'[g] = NoFamily,
         \A k \in Pair : \/ token'[k] = token[k]
                         \/ k[1] = f /\ token'[k] = NoToken
  PROVE  IInv'
<1>1. LocalOK' /\ OneWriter' /\ HandlerInv' /\ \A g \in Family : Public(g) => Public(g)'
  <2>1. \A g \in Family : \/ family'[g] = family[g]
                          \/ g \in ended' /\ \A p \in Proc : ~Writing(p, g)
    BY DEF Public
  <2> QED BY <2>1, EnvironmentHandlers
<1>2. Referred'
  BY <1>1 DEF IInv, TypeOK, StoreOK, Referred, Pair
<1>3. Watched'
  <2> SUFFICES ASSUME NEW q \in Proc, pc[q] = "ref_exec", q \notin dirty'
               PROVE  /\ family'[req[q].fam].status = "active"
                      /\ family'[req[q].fam].cur = req[q].gen
                      /\ token'[Me(q)].st = "current"
    BY DEF Watched, Me, local
  <2>1. req[q].fam \in Family /\ Me(q) \in Pair /\ Me(q)[1] = req[q].fam
    BY DEF IInv, HandlerInv, ControlAt, InRefresh, Me, Pair
  <2>2. q \notin dirty /\ req[q].fam # f
    BY DEF Touch, Watchers
  <2> QED BY <2>1, <2>2 DEF IInv, Watched
<1>4. LastIsCurrent' /\ Minted' /\ RotatedOnce'
  BY DEF IInv, StoreInv, LastIsCurrent, Minted, RotatedOnce, NoFamily
<1>5. Spent'
  <2>1. \A r \in rotated : <<r[1], r[2]>> \in Pair
    BY DEF IInv, TypeOK, StoreOK, Pair
  <2>2. \A k \in Pair : token'[k].st = "current" => token[k].st = "current"
    BY DEF NoToken
  <2> QED BY <2>1, <2>2 DEF IInv, StoreInv, Spent
<1>6. EndedIsFinal'
  BY DEF IInv, TypeOK, StoreOK, StoreInv, EndedIsFinal, NoFamily
<1> QED BY <1>1, <1>2, <1>3, <1>4, <1>5, <1>6 DEF IInv, TypeOK, StoreInv

\* The records of a family expire.
LEMMA FamilyExpiresInv ==
  ASSUME IInv, NEW f \in Family, FamilyExpires(f)
  PROVE  IInv'
<1>1. /\ family[f].status # "missing" /\ ~BeingIssued(f)
      /\ family' = [family EXCEPT ![f] = NoFamily]
      /\ token' = [k \in Pair |-> IF k[1] = f THEN NoToken ELSE token[k]]
      /\ anchor' = [anchor EXCEPT ![f] = NoAnchor]
      /\ tomb' = tomb \ {f} /\ ended' = ended \cup {f} /\ Touch(f)
      /\ UNCHANGED <<session, usess, ufam, db, jwt, aged, pc, local, next, rotated,
                     swept>>
  BY DEF FamilyExpires
<1>2. Public(f)
  BY <1>1 DEF IInv, StoreInv, Minted, HandlerInv, ControlAt, Public, Writing,
     BeingIssued
<1>3. NoFamily \in FamilyRecord /\ NoToken \in TokenRecord /\ NoAnchor \in AnchorRecord
  BY GenAssumption DEF NoFamily, NoToken, NoAnchor, FamilyRecord, TokenRecord,
     AnchorRecord
<1>4. StoreOK'
  BY <1>1, <1>3 DEF IInv, TypeOK, StoreOK, Touch, Watchers, db, jwt
<1>5. /\ \A g \in Family : \/ family'[g] = family[g]
                           \/ g = f /\ family'[g] = NoFamily /\ ended' # ended
                           \/ g = f /\ f \in ended /\ Public(f) /\ family'[g] = NoFamily
      /\ \A k \in Pair : token'[k] = token[k] \/ (k[1] = f /\ token'[k] = NoToken)
      /\ family'[f] = NoFamily
  BY <1>1, <1>2 DEF IInv, TypeOK, StoreOK
<1> QED BY <1>1, <1>2, <1>4, <1>5, ExpiryInv DEF jwt

\* The record of a used token expires.
LEMMA TokenExpiresInv ==
  ASSUME IInv, NEW k \in Pair, TokenExpires(k)
  PROVE  IInv'
<1>1. /\ token' = [token EXCEPT ![k] = NoToken] /\ Touch(k[1]) /\ k[1] \in Family
      /\ UNCHANGED <<session, family, anchor, tomb, usess, ufam, db, jwt, aged, pc,
                     local, hist>>
  BY DEF TokenExpires, Pair
<1>2. NoToken \in TokenRecord
  BY GenAssumption DEF NoToken, TokenRecord
<1>3. StoreOK'
  BY <1>1, <1>2 DEF IInv, TypeOK, StoreOK, Touch, Watchers, db, jwt, hist
<1>4. \A m \in Pair : token'[m] = token[m] \/ (m[1] = k[1] /\ token'[m] = NoToken)
  BY <1>1 DEF IInv, TypeOK, StoreOK
<1> QED BY <1>1, <1>3, <1>4, ExpiryInv DEF jwt, hist

\* The SCAN of a deactivation deletes an access session.
LEMMA ScanDeleteInv ==
  ASSUME IInv, NEW p \in Proc, ScanDelete(p)
  PROVE  IInv'
<1>1. PICK k \in Pair : session' = [session EXCEPT ![k] = None]
  BY DEF ScanDelete
<1>2. UNCHANGED <<family, token, anchor, tomb, usess, ufam, db, jwt, aged, pc, local,
                  dirty, hist>>
  BY DEF ScanDelete
<1>3. StoreOK'
  BY <1>1, <1>2 DEF IInv, TypeOK, StoreOK, db, jwt, hist
<1> QED BY <1>1, <1>2, <1>3, OutsideInv DEF jwt

\* Every step of the environment preserves the invariant.
LEMMA EnvironmentInv ==
  ASSUME IInv, Environment
  PROVE  IInv'
<1>1. CASE \E k \in Pair : SessionExpires(k) \/ GraceEnds(k)
  BY <1>1, OutsideInv DEF SessionExpires, GraceEnds, IInv, TypeOK, StoreOK, redis, db,
     jwt, hist
<1>2. CASE \E u \in User, s \in Project : Grant(u, s)
  <2>1. /\ UNCHANGED <<redis, active, jwt, aged, pc, local, dirty, hist>>
        /\ access' \subseteq User \X Scope
    BY <1>2 DEF Grant, Scope, IInv, TypeOK, StoreOK
  <2>2. StoreOK'
    BY <2>1 DEF IInv, TypeOK, StoreOK, redis, jwt, hist
  <2> QED BY <2>1, <2>2, OutsideInv DEF redis, jwt
<1>3. CASE \E k \in Pair : TokenExpires(k)
  BY <1>3, TokenExpiresInv
<1>4. CASE \E f \in Family : FamilyExpires(f)
  BY <1>4, FamilyExpiresInv
<1> QED BY <1>1, <1>2, <1>3, <1>4 DEF Environment

-----------------------------------------------------------------------------
(* The invariant holds. *)

\* The empty store satisfies the invariant.
LEMMA InitInv == Init => IInv
<1> SUFFICES ASSUME Init PROVE IInv
  OBVIOUS
<1>1. /\ NoFamily \in FamilyRecord /\ NoToken \in TokenRecord
      /\ NoAnchor \in AnchorRecord /\ NoCall \in Request
  BY GenAssumption DEF NoFamily, NoToken, NoAnchor, NoCall, Call, FamilyRecord,
     TokenRecord, AnchorRecord, Request
<1>2. StoreOK
  BY <1>1, GenAssumption DEF Init, StoreOK
<1>3. LocalOK
  BY <1>1, GenAssumption DEF Init, LocalOK, Label
<1>4. \A p \in Proc : pc[p] = "idle" /\ req[p] = NoCall /\ item[p] = None
                     /\ sess[p] = {} /\ fams[p] = {}
  BY DEF Init
<1>5. HandlerInv
  BY <1>4, NoneAssumption DEF HandlerInv, ControlAt, RefersAt, LateAt, NoCall, Call,
     Early, InRefresh, InAccess, InRevoke, PastCheck
<1>6. OneWriter /\ Watched
  BY <1>4 DEF OneWriter, Writing, Early, Watched
<1>7. Referred
  BY DEF Init, Referred
<1>8. StoreInv
  BY DEF Init, StoreInv, LastIsCurrent, Minted, Spent, RotatedOnce, EndedIsFinal,
     NoFamily
<1> QED BY <1>2, <1>3, <1>5, <1>6, <1>7, <1>8 DEF IInv, TypeOK

\* Every arriving request or job preserves the invariant.
LEMMA StartInv ==
  ASSUME IInv, NEW p \in Proc, Start(p)
  PROVE  IInv'
<1>1. CASE \/ \E f \in Family, s \in Project : Login(p, f, s)
           \/ \E f \in Family : PlatformLogin(p, f)
  BY <1>1, SignInInv DEF Login, PlatformLogin, Scope
<1>2. CASE \E k \in Pair : Validate(p, k) \/ Logout(p, k) \/ ChangePassword(p, k)
                            \/ Refresh(p, k)
  BY <1>2, ArriveInv DEF Validate, Logout, ChangePassword, Refresh, Op
<1>3. CASE \E k \in Pair, t \in Project : SwitchProject(p, k, t)
  BY <1>3, ArriveInv DEF SwitchProject, Op
<1>4. CASE \E u \in User : ResetPassword(p, u) \/ Deactivate(p, u)
  <2>1. Mild /\ StoreOK'
    BY <1>4 DEF ResetPassword, Deactivate, Mild, IInv, TypeOK, StoreOK, redis, db, jwt,
       hist
  <2> QED BY <1>4, <2>1, StartSweepInv DEF ResetPassword, Deactivate, Op
<1>5. CASE \E u \in User, s \in Project : RemoveAccess(p, u, s)
  BY <1>5, RemoveAccessInv
<1> QED BY <1>1, <1>2, <1>3, <1>4, <1>5 DEF Start

\* Every command of a handler preserves the invariant.
LEMMA StepInv ==
  ASSUME IInv, NEW p \in Proc, Step(p)
  PROVE  IInv'
<1>1. CASE IssueSession(p) \/ IssueFamily(p) \/ IssueToken(p) \/ IssueAnchor(p)
           \/ IssueSessionsIndex(p) \/ IssueFamiliesIndex(p) \/ Rotated(p)
  BY <1>1, IssueSessionInv, IssueWriteInv, IssueAnchorInv, IssueSessionsIndexInv,
     DeliverInv
<1>2. CASE \/ AccessSession(p) \/ AccessFamily(p) \/ Accepted(p)
           \/ IsRevoked(p, "acc_revoked", "acc_user")
           \/ LoadActiveUser(p, "acc_user", "acc_context")
           \/ ReconstructContext(p, "acc_context", "accepted")
  BY <1>2, AccessSessionInv, AccessFamilyInv, AcceptedInv, IsRevokedInv,
     LoadActiveUserInv, ReconstructContextInv
<1>3. CASE \/ RefreshFamilyRecord(p) \/ RefreshTokenRecord(p)
           \/ IsRevoked(p, "ref_revoked", "ref_session")
           \/ IsRevoked(p, "ref_stale", "cls_family")
           \/ RefreshSession(p) \/ RefreshAnchor(p)
           \/ LoadActiveUser(p, "ref_user", "ref_context")
           \/ ReconstructContext(p, "ref_context", "ref_watch")
           \/ RefreshWatch(p) \/ RefreshExec(p)
  BY <1>3, ReadFamilyInv, RefreshTokenRecordInv, IsRevokedInv, RefreshSessionInv,
     RefreshAnchorInv, LoadActiveUserInv, ReconstructContextInv, RefreshWatchInv,
     RefreshExecInv
<1>4. CASE \/ ClassifyFamily(p) \/ ClassifyToken(p) \/ ClassifyDecide(p)
           \/ IsRevoked(p, "cls_revoked", "cls_decide")
  BY <1>4, ReadFamilyInv, ClassifyTokenInv, ClassifyDecideInv, IsRevokedInv
<1>5. CASE \/ RevokeFamily(p) \/ RevokeMark(p) \/ RevokeTomb(p) \/ RevokeAnchor(p)
           \/ RevokeIndex(p) \/ RevokeSession(p) \/ RevokeReturn(p)
  BY <1>5, RevokeStepInv, RevokeMarkInv, RevokeReturnInv
<1>6. CASE \/ AllSessions(p) \/ AllDelete(p) \/ AllFamilies(p) \/ AllRevoke(p)
           \/ AllClear(p) \/ ScanDelete(p) \/ ScanReturn(p)
  BY <1>6, ListInv, DropInv, AllRevokeInv, AllClearInv, ScanDeleteInv, SweepReturnInv
<1>7. CASE \/ ExceptSessions(p) \/ ExceptSession(p) \/ ExceptDrop(p)
           \/ ExceptFamilies(p) \/ ExceptFamily(p) \/ ExceptRemove(p)
           \/ ExceptReturn(p)
  BY <1>7, ListInv, ExceptSessionInv, DropInv, ExceptFamilyInv, SweepReturnInv
<1>8. CASE \/ ProjectSessions(p) \/ ProjectSession(p) \/ ProjectDrop(p)
           \/ ProjectReturn(p)
  BY <1>8, ListInv, ProjectSessionInv, DropInv, SweepReturnInv
<1> QED BY <1>1, <1>2, <1>3, <1>4, <1>5, <1>6, <1>7, <1>8
     DEF Step, IssueSteps, AccessSteps, RefreshSteps, RevokeSteps, AllSteps, ExceptSteps, ProjectSteps

\* Every step preserves the invariant.
LEMMA NextInv == IInv /\ [Next]_vars => IInv'
<1> SUFFICES ASSUME IInv, [Next]_vars
             PROVE  IInv'
  OBVIOUS
<1>1. CASE \E p \in Proc : Start(p) \/ Step(p) \/ Crash(p)
  BY <1>1, StartInv, StepInv, CrashInv
<1>2. CASE Environment
  BY <1>2, EnvironmentInv
<1>3. CASE UNCHANGED vars
  BY <1>3, OutsideInv DEF vars, redis, db, jwt, IInv, TypeOK, StoreOK, hist
<1> QED BY <1>1, <1>2, <1>3 DEF Next

\* IInv is an inductive invariant: for any number of users, families, handlers
\* and generations, whatever the handlers run and wherever they crash.
THEOREM Invariance == Spec => []IInv
BY InitInv, NextInv, PTL DEF Spec

\* Every key, index and local variable keeps its type.
THEOREM TypeCorrect == Spec => []TypeOK
<1>1. IInv => TypeOK
  BY DEF IInv
<1> QED BY <1>1, Invariance, PTL

\* A refresh token is exchanged at most once, however many handlers present it
\* and wherever they are interrupted.
THEOREM ExchangedOnce == Spec => []RotatedOnce
<1>1. IInv => RotatedOnce
  BY DEF IInv, StoreInv
<1> QED BY <1>1, Invariance, PTL

\* A family that was revoked or has expired is never active again.
THEOREM RevocationIsFinal == Spec => []EndedIsFinal
<1>1. IInv => EndedIsFinal
  BY DEF IInv, StoreInv
<1> QED BY <1>1, Invariance, PTL

\* A request that arrives after the end of its family is never accepted and
\* never obtains a pair.
THEOREM LateIsRefused == Spec => []NoLateAccept
<1>1. IInv => NoLateAccept
  BY DEF IInv, HandlerInv, LateAt, NoLateAccept
<1> QED BY <1>1, Invariance, PTL

-----------------------------------------------------------------------------
(* AuthLifecycle implements RefreshFamily. *)

\* The state the refinement mapping looks at.
mapped == <<family, ended, next, rotated>>

\* The abstract variables, family by family.
Current(f) == IF Phase(f) = "unborn" THEN 0 ELSE next[f]
SpentIn(f) == {n \in Gen : \E c \in Gen : <<f, n, c>> \in rotated}

\* A step changes the abstract state of one family f at most.
LEMMA AbstractStep ==
  ASSUME NEW f \in Family,
         \A g \in Family \ {f} : /\ Phase(g)' = Phase(g) /\ Current(g)' = Current(g)
                                 /\ SpentIn(g)' = SpentIn(g),
         \/ Phase(f)' = Phase(f) /\ Current(f)' = Current(f) /\ SpentIn(f)' = SpentIn(f)
         \/ /\ Phase(f) = "unborn" /\ Phase(f)' = "live"
            /\ Current(f)' = 1 /\ SpentIn(f)' = SpentIn(f)
         \/ /\ Phase(f) = "live" /\ Phase(f)' = "live"
            /\ Current(f) < MaxGen /\ Current(f) \notin SpentIn(f)
            /\ Current(f)' = Current(f) + 1
            /\ SpentIn(f)' = SpentIn(f) \cup {Current(f)}
         \/ /\ Phase(f) = "live" /\ Phase(f)' = "ended"
            /\ Current(f)' = Current(f) /\ SpentIn(f)' = SpentIn(f)
  PROVE  [Abstract!Next]_(Abstract!vars)
<1> DEFINE P == [g \in Family |-> Phase(g)]
           C == [g \in Family |-> Current(g)]
           S == [g \in Family |-> SpentIn(g)]
<1>1. /\ P' = [P EXCEPT ![f] = Phase(f)']
      /\ C' = [C EXCEPT ![f] = Current(f)']
      /\ S' = [S EXCEPT ![f] = SpentIn(f)']
  OBVIOUS
<1>2. P[f] = Phase(f) /\ C[f] = Current(f) /\ S[f] = SpentIn(f)
  OBVIOUS
<1>3. CASE Phase(f)' = Phase(f) /\ Current(f)' = Current(f) /\ SpentIn(f)' = SpentIn(f)
  <2>1. P' = P /\ C' = C /\ S' = S
    BY <1>1, <1>2, <1>3
  <2> QED BY <2>1 DEF Abstract!vars, Current, SpentIn
<1>4. CASE /\ Phase(f) = "unborn" /\ Phase(f)' = "live"
           /\ Current(f)' = 1 /\ SpentIn(f)' = SpentIn(f)
  <2>1. /\ P[f] = "unborn" /\ P' = [P EXCEPT ![f] = "live"]
        /\ C' = [C EXCEPT ![f] = 1] /\ S' = S
    BY <1>1, <1>2, <1>4
  <2> QED BY <2>1 DEF Abstract!Next, Abstract!Issue, Current, SpentIn
<1>5. CASE /\ Phase(f) = "live" /\ Phase(f)' = "live"
           /\ Current(f) < MaxGen /\ Current(f) \notin SpentIn(f)
           /\ Current(f)' = Current(f) + 1
           /\ SpentIn(f)' = SpentIn(f) \cup {Current(f)}
  <2>1. /\ P[f] = "live" /\ C[f] < MaxGen /\ C[f] \notin S[f] /\ P' = P
        /\ C' = [C EXCEPT ![f] = C[f] + 1] /\ S' = [S EXCEPT ![f] = S[f] \cup {C[f]}]
    BY <1>1, <1>2, <1>5
  <2> QED BY <2>1 DEF Abstract!Next, Abstract!Exchange, Current, SpentIn
<1>6. CASE /\ Phase(f) = "live" /\ Phase(f)' = "ended"
           /\ Current(f)' = Current(f) /\ SpentIn(f)' = SpentIn(f)
  <2>1. P[f] = "live" /\ P' = [P EXCEPT ![f] = "ended"] /\ C' = C /\ S' = S
    BY <1>1, <1>2, <1>6
  <2> QED BY <2>1 DEF Abstract!Next, Abstract!End, Current, SpentIn
<1> QED BY <1>3, <1>4, <1>5, <1>6

\* A step that leaves the mapped state alone is a stutter of RefreshFamily.
LEMMA StutterStep ==
  ASSUME UNCHANGED mapped
  PROVE  [Abstract!Next]_(Abstract!vars)
BY DEF mapped, Abstract!vars, Phase

\* Minting ids is invisible: the family has no record yet.
LEMMA SignInStutters ==
  ASSUME IInv, NEW p \in Proc, NEW f \in Family, NEW s \in Scope, SignIn(p, f, s)
  PROVE  [Abstract!Next]_(Abstract!vars)
<1>1. /\ next[f] = 0 /\ next' = [next EXCEPT ![f] = 1]
      /\ UNCHANGED <<family, ended, rotated>>
  BY DEF SignIn, redis
<1>2. Phase(f) = "unborn"
  BY <1>1 DEF IInv, StoreInv, Minted, Referred, Public, Phase
<1>3. \A g \in Family : Phase(g)' = Phase(g) /\ SpentIn(g)' = SpentIn(g)
  BY <1>1 DEF Phase, SpentIn
<1>4. \A g \in Family \ {f} : next'[g] = next[g]
  BY <1>1 DEF IInv, TypeOK, StoreOK
<1>5. \A g \in Family : Current(g)' = Current(g)
  BY <1>2, <1>3, <1>4 DEF Current
<1> QED BY <1>3, <1>5, AbstractStep

\* The SET of the family is where the family is issued.
LEMMA IssueIssues ==
  ASSUME IInv, NEW p \in Proc, IssueFamily(p)
  PROVE  [Abstract!Next]_(Abstract!vars)
<1>1. PICK f \in Family : f = req[p].fam
  BY DEF IssueFamily, Goto, IInv, HandlerInv, ControlAt, Early
<1>2. /\ Writing(p, f) /\ next[f] = 1 /\ f \notin ended
  BY <1>1 DEF IssueFamily, Goto, IInv, OneWriter, Referred, Public, Writing, Early
<1>3. /\ UNCHANGED <<next, rotated, ended>> /\ family'[f].status = "active"
      /\ \A g \in Family \ {f} : family'[g] = family[g]
  BY <1>1 DEF IssueFamily, IInv, TypeOK, StoreOK, hist
<1>4. \A g \in Family \ {f} : Phase(g)' = Phase(g) /\ Current(g)' = Current(g)
  BY <1>3 DEF Phase, Current
<1>5. \A g \in Family : SpentIn(g)' = SpentIn(g)
  BY <1>3 DEF SpentIn
<1>6. Phase(f)' = "live" /\ Current(f)' = 1 /\ Phase(f) \in {"unborn", "live"}
  BY <1>2, <1>3 DEF Phase, Current
<1>7. Phase(f) = "live" => Current(f) = 1
  BY <1>2 DEF Current
<1> QED BY <1>4, <1>5, <1>6, <1>7, AbstractStep

\* A successful EXEC is an exchange.
LEMMA ExecExchanges ==
  ASSUME IInv, NEW p \in Proc, NEW f, NEW c, Exchanged(p, f, c)
  PROVE  [Abstract!Next]_(Abstract!vars)
<1> DEFINE n == req[p].gen
<1>1. /\ f \in Family /\ n \in Gen /\ c \in Gen /\ c = n + 1
      /\ next[f] = n /\ f \notin ended
      /\ family[f].status = "active" /\ copy[p].status = "active"
      /\ \A r \in rotated : r[1] = f => r[2] < n
  BY ExchangeFacts
<1>2. /\ ended' = ended /\ next' = [next EXCEPT ![f] = c]
      /\ rotated' = rotated \cup {<<f, n, c>>}
      /\ family' = [family EXCEPT ![f] = [copy[p] EXCEPT !.cur = c, !.scope = scope[p]]]
  BY DEF Exchanged
<1>3. family'[f].status = "active"
  <2>1. [copy[p] EXCEPT !.cur = c, !.scope = scope[p]].status = "active"
    BY <1>1 DEF IInv, TypeOK, LocalOK, FamilyRecord
  <2> QED BY <1>1, <1>2, <2>1 DEF IInv, TypeOK, StoreOK
<1>4. \A g \in Family \ {f} : family'[g] = family[g] /\ next'[g] = next[g]
  BY <1>2 DEF IInv, TypeOK, StoreOK
<1>5. \A g \in Family \ {f} : /\ Phase(g)' = Phase(g) /\ Current(g)' = Current(g)
                              /\ SpentIn(g)' = SpentIn(g)
  BY <1>2, <1>4 DEF Phase, Current, SpentIn
<1>6. Phase(f) = "live" /\ Phase(f)' = "live" /\ Current(f) = n /\ Current(f)' = n + 1
  <2>1. next'[f] = c
    BY <1>1, <1>2 DEF IInv, TypeOK, StoreOK
  <2> QED BY <1>1, <1>2, <1>3, <2>1 DEF Phase, Current
<1>7. n < MaxGen
  BY <1>1, GenAssumption DEF Gen
<1>8. n \notin SpentIn(f)
  <2>1. \A d : <<f, n, d>> \in rotated => n < n
    BY <1>1
  <2>2. ~(n < n)
    BY <1>1 DEF Gen
  <2> QED BY <2>1, <2>2 DEF SpentIn
<1>9. SpentIn(f)' = SpentIn(f) \cup {n}
  BY <1>1, <1>2 DEF SpentIn
<1> QED BY <1>1, <1>5, <1>6, <1>7, <1>8, <1>9, AbstractStep

\* A family that is revoked or expires ends, or had already ended.
LEMMA EndingEnds ==
  ASSUME IInv, NEW f \in Family, Public(f), UNCHANGED <<next, rotated>>,
         ended' = ended \cup {f}, \A g \in Family \ {f} : family'[g] = family[g]
  PROVE  [Abstract!Next]_(Abstract!vars)
<1>1. \A g \in Family \ {f} : Phase(g)' = Phase(g) /\ Current(g)' = Current(g)
  BY DEF Phase, Current
<1>2. \A g \in Family : SpentIn(g)' = SpentIn(g)
  BY DEF SpentIn
<1>3. Phase(f) \in {"live", "ended"} /\ Phase(f)' = "ended" /\ Current(f)' = Current(f)
  BY DEF Public, Phase, Current
<1> QED BY <1>1, <1>2, <1>3, AbstractStep

\* No arriving request or job is visible.
LEMMA StartStutters ==
  ASSUME IInv, NEW p \in Proc, Start(p)
  PROVE  [Abstract!Next]_(Abstract!vars)
<1>1. CASE \/ \E f \in Family, s \in Project : Login(p, f, s)
           \/ \E f \in Family : PlatformLogin(p, f)
  BY <1>1, SignInStutters DEF Login, PlatformLogin, Scope
<1>2. CASE \/ \E k \in Pair : Validate(p, k) \/ Logout(p, k) \/ ChangePassword(p, k)
                              \/ Refresh(p, k)
           \/ \E k \in Pair, t \in Project : SwitchProject(p, k, t)
  BY <1>2, StutterStep DEF Validate, Logout, ChangePassword, Refresh, SwitchProject,
     Arrive, mapped, redis, hist
<1>3. CASE \/ \E u \in User : ResetPassword(p, u) \/ Deactivate(p, u)
           \/ \E u \in User, s \in Project : RemoveAccess(p, u, s)
  BY <1>3, StutterStep DEF ResetPassword, Deactivate, RemoveAccess, mapped, redis, hist
<1> QED BY <1>1, <1>2, <1>3 DEF Start

\* Every command of a handler is a step or a stutter of RefreshFamily.
LEMMA StepRefines ==
  ASSUME IInv, NEW p \in Proc, Step(p)
  PROVE  [Abstract!Next]_(Abstract!vars)
<1>1. CASE IssueFamily(p)
  BY <1>1, IssueIssues
<1>2. CASE RefreshExec(p)
  <2>1. CASE Exchanged(p, req[p].fam, next[req[p].fam] + 1)
    BY <2>1, ExecExchanges
  <2>2. CASE UNCHANGED mapped
    BY <2>2, StutterStep
  <2> QED BY <1>2, <2>1, <2>2 DEF RefreshExec, Exchanged, Goto, mapped, redis, hist
<1>3. CASE RevokeMark(p)
  <2>1. item[p] \in Family /\ Public(item[p])
    BY <1>3 DEF RevokeMark, Goto, IInv, HandlerInv, ControlAt, RefersAt, InRevoke
  <2>2. \A g \in Family \ {item[p]} : family'[g] = family[g]
    BY <1>3 DEF RevokeMark, IInv, TypeOK, StoreOK
  <2> QED BY <1>3, <2>1, <2>2, EndingEnds DEF RevokeMark
<1>4. CASE \/ IssueSession(p) \/ IssueToken(p) \/ IssueAnchor(p)
           \/ IssueSessionsIndex(p) \/ IssueFamiliesIndex(p) \/ Rotated(p)
           \/ AccessSession(p) \/ AccessFamily(p) \/ Accepted(p)
  BY <1>4, StutterStep DEF IssueSession, IssueToken, IssueAnchor, IssueSessionsIndex,
     IssueFamiliesIndex, Rotated, AccessSession, AccessFamily, Accepted, mapped, redis,
     hist
<1>5. CASE \/ IsRevoked(p, "acc_revoked", "acc_user")
           \/ LoadActiveUser(p, "acc_user", "acc_context")
           \/ ReconstructContext(p, "acc_context", "accepted")
           \/ IsRevoked(p, "ref_revoked", "ref_session")
           \/ IsRevoked(p, "ref_stale", "cls_family")
           \/ LoadActiveUser(p, "ref_user", "ref_context")
           \/ ReconstructContext(p, "ref_context", "ref_watch")
           \/ IsRevoked(p, "cls_revoked", "cls_decide")
  BY <1>5, StutterStep DEF IsRevoked, LoadActiveUser, ReconstructContext, mapped, redis,
     hist
<1>6. CASE \/ RefreshFamilyRecord(p) \/ RefreshTokenRecord(p) \/ RefreshSession(p)
           \/ RefreshAnchor(p) \/ RefreshWatch(p)
           \/ ClassifyFamily(p) \/ ClassifyToken(p) \/ ClassifyDecide(p)
  BY <1>6, StutterStep DEF RefreshFamilyRecord, RefreshTokenRecord, RefreshSession,
     RefreshAnchor, RefreshWatch, ClassifyFamily, ClassifyToken, ClassifyDecide,
     mapped, redis, hist
<1>7. CASE \/ RevokeFamily(p) \/ RevokeTomb(p) \/ RevokeAnchor(p) \/ RevokeIndex(p)
           \/ RevokeSession(p) \/ RevokeReturn(p)
  BY <1>7, StutterStep DEF RevokeFamily, RevokeTomb, RevokeAnchor, RevokeIndex,
     RevokeSession, RevokeReturn, mapped, redis, hist
<1>8. CASE \/ AllSessions(p) \/ AllDelete(p) \/ AllFamilies(p) \/ AllRevoke(p)
           \/ AllClear(p) \/ ScanDelete(p) \/ ScanReturn(p)
           \/ ProjectSessions(p) \/ ProjectSession(p) \/ ProjectDrop(p)
           \/ ProjectReturn(p)
  BY <1>8, StutterStep DEF AllSessions, AllDelete, AllFamilies, AllRevoke, AllClear,
     ScanDelete, ScanReturn, ProjectSessions, ProjectSession, ProjectDrop, ProjectReturn, mapped, redis, hist
<1>9. CASE \/ ExceptSessions(p) \/ ExceptSession(p) \/ ExceptDrop(p)
           \/ ExceptFamilies(p) \/ ExceptFamily(p) \/ ExceptRemove(p)
           \/ ExceptReturn(p)
  BY <1>9, StutterStep DEF ExceptSessions, ExceptSession, ExceptDrop, ExceptFamilies,
     ExceptFamily, ExceptRemove, ExceptReturn, mapped, redis, hist
<1> QED BY <1>1, <1>2, <1>3, <1>4, <1>5, <1>6, <1>7, <1>8, <1>9
     DEF Step, IssueSteps, AccessSteps, RefreshSteps, RevokeSteps, AllSteps, ExceptSteps, ProjectSteps

\* So is every step of the environment.
LEMMA EnvironmentRefines ==
  ASSUME IInv, Environment
  PROVE  [Abstract!Next]_(Abstract!vars)
<1>1. CASE \/ \E k \in Pair : SessionExpires(k) \/ TokenExpires(k) \/ GraceEnds(k)
           \/ \E u \in User, s \in Project : Grant(u, s)
  BY <1>1, StutterStep DEF SessionExpires, TokenExpires, GraceEnds, Grant,
     mapped, redis, hist
<1>2. ASSUME NEW f \in Family, FamilyExpires(f)
      PROVE  [Abstract!Next]_(Abstract!vars)
  <2>1. Public(f)
    BY <1>2 DEF FamilyExpires, IInv, StoreInv, Minted, HandlerInv, ControlAt, Public,
       Writing, BeingIssued
  <2>2. \A g \in Family \ {f} : family'[g] = family[g]
    BY <1>2 DEF FamilyExpires, IInv, TypeOK, StoreOK
  <2> QED BY <1>2, <2>1, <2>2, EndingEnds DEF FamilyExpires
<1> QED BY <1>1, <1>2 DEF Environment

\* So is every step.
LEMMA NextRefines == IInv /\ [Next]_vars => [Abstract!Next]_(Abstract!vars)
<1> SUFFICES ASSUME IInv, [Next]_vars
             PROVE  [Abstract!Next]_(Abstract!vars)
  OBVIOUS
<1>1. CASE \E p \in Proc : Start(p) \/ Step(p) \/ Crash(p)
  BY <1>1, StartStutters, StepRefines, StutterStep DEF Crash, mapped, redis, hist
<1>2. CASE Environment
  BY <1>2, EnvironmentRefines
<1>3. CASE UNCHANGED vars
  BY <1>3, StutterStep DEF vars, mapped, redis, hist
<1> QED BY <1>1, <1>2, <1>3 DEF Next

\* Whatever the interleaving of their Redis commands, the handlers together
\* behave like RefreshFamily: families are issued once, exchange one token at a
\* time and never come back once they have ended.
THEOREM Refinement == Spec => Promise
<1>1. Init => Abstract!Init
  BY DEF Init, Abstract!Init, Phase, NoFamily
<1> QED BY <1>1, NextRefines, Invariance, PTL DEF Spec, Promise, Abstract!Spec

-----------------------------------------------------------------------------
(* A step of one handler leaves all the locals of the others alone. *)

Apart(p) ==
    \A q \in Proc \ {p} :
      /\ pc'[q] = pc[q] /\ req'[q] = req[q]
      /\ scope'[q] = scope[q] /\ copy'[q] = copy[q] /\ child'[q] = child[q]
      /\ item'[q] = item[q] /\ mark'[q] = mark[q] /\ ret'[q] = ret[q] /\ keys'[q] = keys[q]
      /\ sess'[q] = sess[q] /\ fams'[q] = fams[q] /\ seen'[q] = seen[q]
      /\ at'[q] = at[q] /\ cover'[q] = cover[q]

LEMMA FinishApart == ASSUME LocalOK, NEW p \in Proc, Finish(p) PROVE Apart(p)
BY DEF LocalOK, Finish, Apart

LEMMA ProceedApart == ASSUME LocalOK, NEW p \in Proc, NEW to, Proceed(p, to) PROVE Apart(p)
BY DEF LocalOK, Proceed, Apart, local, ctx, rev, loop

LEMMA RevokeOwnApart == ASSUME LocalOK, NEW p \in Proc, NEW s, RevokeOwn(p, s) PROVE Apart(p)
BY DEF LocalOK, RevokeOwn, CallRevoke, Apart, ctx, loop

LEMMA StartApart == ASSUME LocalOK, NEW p \in Proc, Start(p) PROVE Apart(p)
<1> USE DEF LocalOK, Apart, local, ctx, rev, loop
<1>1. ASSUME NEW f \in Family, NEW s, SignIn(p, f, s) PROVE Apart(p)
  BY <1>1 DEF SignIn
<1>2. ASSUME NEW o, NEW k \in Pair, NEW t, NEW to, Arrive(p, o, k, t, to) PROVE Apart(p)
  BY <1>2 DEF Arrive
<1>3. ASSUME NEW o, NEW u \in User, StartSweep(p, o, u) PROVE Apart(p)
  BY <1>3 DEF StartSweep
<1>4. ASSUME NEW u \in User, NEW s \in Project, RemoveAccess(p, u, s) PROVE Apart(p)
  BY <1>4 DEF RemoveAccess
<1> HIDE DEF Apart, LocalOK
<1> QED BY <1>1, <1>2, <1>3, <1>4 DEF Start, Login, PlatformLogin, Validate, Logout, ChangePassword,
     Refresh, SwitchProject, ResetPassword, Deactivate

LEMMA IssueApart == ASSUME LocalOK, NEW p \in Proc, IssueSteps(p) PROVE Apart(p)
<1>1. CASE IssueSession(p)
  BY <1>1 DEF IssueSession, Goto, LocalOK, Apart, local, ctx, rev, loop
<1>2. CASE IssueFamily(p)
  BY <1>2 DEF IssueFamily, Goto, LocalOK, Apart, local, ctx, rev, loop
<1>3. CASE IssueToken(p)
  BY <1>3 DEF IssueToken, Goto, LocalOK, Apart, local, ctx, rev, loop
<1>4. CASE IssueAnchor(p)
  BY <1>4 DEF IssueAnchor, Goto, LocalOK, Apart, local, ctx, rev, loop
<1>5. CASE IssueSessionsIndex(p)
  BY <1>5 DEF IssueSessionsIndex, Goto, LocalOK, Apart, local, ctx, rev, loop
<1>6. CASE IssueFamiliesIndex(p)
  BY <1>6, FinishApart DEF IssueFamiliesIndex
<1> QED BY <1>1, <1>2, <1>3, <1>4, <1>5, <1>6 DEF IssueSteps

LEMMA IsRevokedApart == ASSUME LocalOK, NEW p \in Proc, NEW a, NEW b, IsRevoked(p, a, b) PROVE Apart(p)
BY FinishApart, ProceedApart DEF IsRevoked

LEMMA LoadApart == ASSUME LocalOK, NEW p \in Proc, NEW a, NEW b, LoadActiveUser(p, a, b) PROVE Apart(p)
BY ProceedApart, RevokeOwnApart DEF LoadActiveUser

LEMMA ReconstructApart == ASSUME LocalOK, NEW p \in Proc, NEW a, NEW b, ReconstructContext(p, a, b) PROVE Apart(p)
BY ProceedApart, RevokeOwnApart DEF ReconstructContext

LEMMA AccessApart == ASSUME LocalOK, NEW p \in Proc, AccessSteps(p) PROVE Apart(p)
<1>1. CASE AccessSession(p)
  <2>1. CASE Finish(p)
    BY <2>1, FinishApart
  <2>2. CASE ~Finish(p)
    BY <1>1, <2>2 DEF AccessSession, LocalOK, Apart, rev, loop
  <2> QED BY <2>1, <2>2
<1>2. CASE AccessFamily(p)
  BY <1>2, FinishApart, ProceedApart DEF AccessFamily
<1>3. CASE Accepted(p)
  <2>1. CASE req[p].op = "password_change"
    BY <1>3, <2>1 DEF Accepted, LocalOK, Apart, ctx, rev
  <2>2. CASE req[p].op # "password_change"
    BY <1>3, <2>2, FinishApart, ProceedApart, RevokeOwnApart DEF Accepted
  <2> QED BY <2>1, <2>2
<1> QED BY <1>1, <1>2, <1>3, IsRevokedApart, LoadApart, ReconstructApart DEF AccessSteps

LEMMA RefreshApart == ASSUME LocalOK, NEW p \in Proc, RefreshSteps(p) PROVE Apart(p)
<1>1. CASE RefreshFamilyRecord(p)
  BY <1>1 DEF RefreshFamilyRecord, Goto, LocalOK, Apart, rev, loop
<1>2. CASE RefreshTokenRecord(p)
  BY <1>2, FinishApart, ProceedApart DEF RefreshTokenRecord
<1>3. CASE RefreshSession(p)
  <2>1. CASE Finish(p) \/ Proceed(p, "ref_anchor")
    BY <2>1, FinishApart, ProceedApart
  <2>2. CASE ~(Finish(p) \/ Proceed(p, "ref_anchor"))
    BY <1>3, <2>2 DEF RefreshSession, LocalOK, Apart, rev, loop
  <2> QED BY <2>1, <2>2
<1>4. CASE RefreshAnchor(p)
  <2>1. CASE Finish(p) \/ RevokeOwn(p, "revoked")
    BY <2>1, FinishApart, RevokeOwnApart
  <2>2. CASE ~(Finish(p) \/ RevokeOwn(p, "revoked"))
    BY <1>4, <2>2 DEF RefreshAnchor, LocalOK, Apart, rev, loop
  <2> QED BY <2>1, <2>2
<1>5. CASE RefreshWatch(p)
  BY <1>5 DEF RefreshWatch, LocalOK, Apart, local, ctx, rev, loop
<1>6. CASE RefreshExec(p)
  BY <1>6 DEF RefreshExec, Goto, LocalOK, Apart, local, ctx, rev, loop
<1>7. CASE Rotated(p)
  BY <1>7, FinishApart DEF Rotated
<1>8. CASE ClassifyFamily(p)
  BY <1>8 DEF ClassifyFamily, Goto, LocalOK, Apart, rev, loop
<1>9. CASE ClassifyToken(p)
  <2>1. CASE Finish(p)
    BY <2>1, FinishApart
  <2>2. CASE ~Finish(p)
    BY <1>9, <2>2 DEF ClassifyToken, LocalOK, Apart, rev, loop
  <2> QED BY <2>1, <2>2
<1>10. CASE ClassifyDecide(p)
  BY <1>10, FinishApart, RevokeOwnApart DEF ClassifyDecide
<1> QED BY <1>1, <1>2, <1>3, <1>4, <1>5, <1>6, <1>7, <1>8, <1>9, <1>10, IsRevokedApart, LoadApart,
      ReconstructApart DEF RefreshSteps

LEMMA RevokeApart == ASSUME LocalOK, NEW p \in Proc, RevokeSteps(p) PROVE Apart(p)
<1>1. CASE RevokeFamily(p) \/ RevokeMark(p) \/ RevokeTomb(p) \/ RevokeAnchor(p)
  BY <1>1 DEF RevokeFamily, RevokeMark, RevokeTomb, RevokeAnchor, Goto, LocalOK, Apart, local, ctx, rev, loop
<1>2. CASE RevokeIndex(p)
  BY <1>2 DEF RevokeIndex, Goto, LocalOK, Apart, ctx, loop
<1>3. CASE RevokeSession(p)
  BY <1>3 DEF RevokeSession, LocalOK, Apart, ctx, loop
<1>4. CASE RevokeReturn(p)
  BY <1>4, FinishApart, ProceedApart DEF RevokeReturn
<1> QED BY <1>1, <1>2, <1>3, <1>4 DEF RevokeSteps

LEMMA AllApart == ASSUME LocalOK, NEW p \in Proc, AllSteps(p) PROVE Apart(p)
<1>1. CASE AllSessions(p) \/ AllDelete(p) \/ AllFamilies(p)
  BY <1>1 DEF AllSessions, AllDelete, AllFamilies, Goto, LocalOK, Apart, ctx, rev
<1>2. CASE AllRevoke(p)
  BY <1>2 DEF AllRevoke, CallRevoke, LocalOK, Apart, ctx
<1>3. CASE AllClear(p)
  <2>1. CASE Finish(p)
    BY <2>1, FinishApart
  <2>2. CASE ~Finish(p)
    BY <1>3, <2>2 DEF AllClear, LocalOK, Apart, ctx, rev, loop
  <2> QED BY <2>1, <2>2
<1>4. CASE ScanDelete(p)
  BY <1>4 DEF ScanDelete, LocalOK, Apart, local, ctx, rev, loop
<1>5. CASE ScanReturn(p)
  BY <1>5, FinishApart DEF ScanReturn
<1> QED BY <1>1, <1>2, <1>3, <1>4, <1>5 DEF AllSteps

LEMMA ExceptApart == ASSUME LocalOK, NEW p \in Proc, ExceptSteps(p) PROVE Apart(p)
<1>1. CASE ExceptSessions(p) \/ ExceptFamilies(p)
  BY <1>1 DEF ExceptSessions, ExceptFamilies, Goto, LocalOK, Apart, ctx, rev
<1>2. CASE ExceptSession(p)
  BY <1>2 DEF ExceptSession, CallRevoke, LocalOK, Apart, ctx, rev
<1>3. CASE ExceptDrop(p)
  BY <1>3 DEF ExceptDrop, Goto, LocalOK, Apart, ctx, rev
<1>4. CASE ExceptFamily(p)
  BY <1>4 DEF ExceptFamily, CallRevoke, LocalOK, Apart, ctx, rev
<1>5. CASE ExceptRemove(p)
  BY <1>5 DEF ExceptRemove, Goto, LocalOK, Apart, ctx, rev
<1>6. CASE ExceptReturn(p)
  BY <1>6, FinishApart DEF ExceptReturn
<1> QED BY <1>1, <1>2, <1>3, <1>4, <1>5, <1>6 DEF ExceptSteps

LEMMA ProjectApart == ASSUME LocalOK, NEW p \in Proc, ProjectSteps(p) PROVE Apart(p)
<1>1. CASE ProjectSessions(p)
  BY <1>1 DEF ProjectSessions, Goto, LocalOK, Apart, ctx, rev
<1>2. CASE ProjectSession(p)
  BY <1>2 DEF ProjectSession, CallRevoke, LocalOK, Apart, ctx, rev
<1>3. CASE ProjectDrop(p)
  BY <1>3 DEF ProjectDrop, Goto, LocalOK, Apart, ctx, rev
<1>4. CASE ProjectReturn(p)
  BY <1>4, FinishApart DEF ProjectReturn
<1> QED BY <1>1, <1>2, <1>3, <1>4 DEF ProjectSteps

LEMMA ActsAlone ==
  ASSUME LocalOK, NEW p \in Proc, Start(p) \/ Step(p) \/ Crash(p) PROVE Apart(p)
BY StartApart, IssueApart, AccessApart, RefreshApart, RevokeApart, AllApart, ExceptApart, ProjectApart,
   FinishApart DEF Step, Crash

\* Where the environment leaves the handlers: nowhere else.
LEMMA EnvironmentApart == ASSUME Environment PROVE UNCHANGED <<pc, local>>
BY DEF Environment, SessionExpires, TokenExpires, GraceEnds, FamilyExpires, Grant

-----------------------------------------------------------------------------
(* Reuse: what a family looks like to a token that lost its place. *)

\* Labels of a revocation that has written its mark.
Marked == {"rev_tomb", "rev_anchor", "rev_index", "rev_sessions"}

\* The handler's token lost its place for a reason: its family has rotated or
\* ended, or the token's record is gone.
Moved(p) == next[req[p].fam] >= 2 \/ req[p].fam \in ended \/ token[Me(p)].st = "missing"

\* A token of the family was presented after its grace, or two rotations late.
Stale(f) == ~Grace \/ next[f] >= 3 \/ \E n \in Gen : <<f, n>> \in aged

\* What the copies of a handler say of the pairs that were minted.
AgeAt(p) ==
    /\ pc[p] \in InRefresh \cup InAccess \cup {"issue_families_index"} => req[p].gen <= next[req[p].fam]
    /\ pc[p] = "rotated" => child[p] <= next[req[p].fam]
    /\ pc[p] = "ref_token" /\ copy[p].status = "active" => copy[p].cur \in 1 .. next[req[p].fam]
    /\ pc[p] \in {"ref_stale", "cls_family"} => Moved(p)
    /\ pc[p] = "ref_exec" /\ p \in dirty => Moved(p)
    /\ pc[p] = "cls_token" /\ copy[p].status = "active" =>
          /\ copy[p].cur <= next[req[p].fam]
          /\ copy[p].cur >= 2 \/ token[Me(p)].st = "missing"
    /\ pc[p] \in {"cls_revoked", "cls_decide"} =>
          child[p] \in 2 .. next[req[p].fam] /\ copy[p].cur \in 2 .. next[req[p].fam]
    /\ pc[p] \in {"rev_family", "rev_mark"} /\ mark[p] = "reused" => Stale(item[p])
    /\ pc[p] \in Marked => item[p] \in ended

AgeStore ==
    /\ \A k \in held : k[2] <= next[k[1]]
    /\ \A k \in Pair : token[k].st = "used" => token[k].child \in 2 .. next[k[1]]
    /\ tomb \subseteq ended
    /\ ReuseNeedsStaleToken

AgeInv == AgeStore /\ \A p \in Proc : AgeAt(p)

\* Pairs are minted, tokens age, families end; the record of a minted token does
\* not come back, and a WATCH is lost to a rotation or to the end of the family.
KeepsAge ==
    /\ \A f \in Family : next[f] <= next'[f]
    /\ aged \subseteq aged' /\ ended \subseteq ended'
    /\ \A f \in Family, n \in Gen :
          Public(f) /\ n <= next[f] /\ token[<<f, n>>].st = "missing" => token'[<<f, n>>].st = "missing"
    /\ \A q \in Proc : q \in dirty' \ dirty /\ pc[q] = "ref_exec" =>
          next'[req[q].fam] >= 2 \/ req[q].fam \in ended'

LEMMA OtherAge ==
  ASSUME IInv, IInv', KeepsAge, NEW q \in Proc, AgeAt(q),
         pc'[q] = pc[q], req'[q] = req[q], copy'[q] = copy[q], child'[q] = child[q],
         item'[q] = item[q], mark'[q] = mark[q]
  PROVE  AgeAt(q)'
<1> DEFINE f == req[q].fam
<1>1. \A g \in Family : next[g] \in Nat /\ next'[g] \in Nat /\ next[g] <= next'[g]
  BY GenAssumption DEF KeepsAge, IInv, TypeOK, StoreOK
<1>2. copy[q].cur \in Nat /\ child[q] \in Nat /\ req[q].gen \in Nat
  BY GenAssumption DEF IInv, TypeOK, LocalOK, FamilyRecord, Request
<1>3. ASSUME pc[q] \in InRefresh \cup InAccess \cup {"issue_families_index", "rotated"}
      PROVE  f \in Family /\ req[q].gen \in Gen /\ Public(f)
  BY <1>3 DEF IInv, HandlerInv, ControlAt, RefersAt, Early, InRefresh, InAccess
<1>4. pc[q] \in InRevoke => item[q] \in Family
  BY DEF IInv, HandlerInv, ControlAt
<1>5. Me(q)' = Me(q) /\ Me(q) = <<f, req[q].gen>>
  BY DEF Me
<1>6. ASSUME pc[q] \in InRefresh, req[q].gen <= next[f], token[Me(q)].st = "missing"
      PROVE  token'[Me(q)].st = "missing"
  BY <1>3, <1>5, <1>6 DEF KeepsAge
<1>7. ASSUME pc[q] \in InRefresh, Moved(q) PROVE Moved(q)'
  <2>1. req[q].gen <= next[f]
    BY <1>7 DEF AgeAt
  <2> QED BY <1>1, <1>3, <1>5, <1>6, <1>7, <2>1 DEF Moved, KeepsAge
<1>8. ASSUME NEW g \in Family, Stale(g) PROVE Stale(g)'
  BY <1>1, <1>8 DEF Stale, KeepsAge
<1>a. (pc[q] \in InRefresh \cup InAccess \cup {"issue_families_index"} => req[q].gen <= next[f])'
  BY <1>1, <1>2, <1>3 DEF AgeAt
<1>b. (pc[q] = "rotated" => child[q] <= next[f])'
  BY <1>1, <1>2, <1>3 DEF AgeAt
<1>c. (pc[q] = "ref_token" /\ copy[q].status = "active" => copy[q].cur \in 1 .. next[f])'
  BY <1>1, <1>2, <1>3 DEF AgeAt, InRefresh
<1>d. (pc[q] \in {"ref_stale", "cls_family"} => Moved(q))'
  BY <1>7 DEF AgeAt, InRefresh
<1>e. (pc[q] = "ref_exec" /\ q \in dirty => Moved(q))'
  <2> SUFFICES ASSUME pc[q] = "ref_exec", q \in dirty' PROVE Moved(q)'
    OBVIOUS
  <2>1. CASE q \in dirty
    BY <1>7, <2>1 DEF AgeAt, InRefresh
  <2>2. CASE q \notin dirty
    BY <2>2 DEF KeepsAge, Moved
  <2> QED BY <2>1, <2>2
<1>f. (pc[q] = "cls_token" /\ copy[q].status = "active" =>
          copy[q].cur <= next[f] /\ (copy[q].cur >= 2 \/ token[Me(q)].st = "missing"))'
  <2> SUFFICES ASSUME pc[q] = "cls_token", copy[q].status = "active"
               PROVE  copy[q].cur <= next'[f] /\ (copy[q].cur >= 2 \/ token'[Me(q)].st = "missing")
    BY <1>5
  <2>1. pc[q] \in InRefresh /\ f \in Family /\ req[q].gen <= next[f]
    BY <1>3 DEF InRefresh, AgeAt
  <2>2. copy[q].cur <= next[f] /\ (copy[q].cur >= 2 \/ token[Me(q)].st = "missing")
    BY DEF AgeAt
  <2> QED BY <1>1, <1>2, <1>6, <2>1, <2>2
<1>g. (pc[q] \in {"cls_revoked", "cls_decide"} => child[q] \in 2 .. next[f] /\ copy[q].cur \in 2 .. next[f])'
  BY <1>1, <1>2, <1>3 DEF AgeAt, InRefresh
<1>h. (pc[q] \in {"rev_family", "rev_mark"} /\ mark[q] = "reused" => Stale(item[q]))'
  <2> SUFFICES ASSUME pc[q] \in {"rev_family", "rev_mark"}, mark[q] = "reused" PROVE Stale(item[q])'
    OBVIOUS
  <2>1. item[q] \in Family /\ Stale(item[q])
    BY <1>4 DEF AgeAt, InRevoke
  <2>2. Stale(item[q])' <=> (~Grace \/ next'[item[q]] >= 3 \/ \E n \in Gen : <<item[q], n>> \in aged')
    BY DEF Stale
  <2> QED BY <1>1, <2>1, <2>2 DEF Stale, KeepsAge
<1>i. (pc[q] \in Marked => item[q] \in ended)'
  BY DEF AgeAt, KeepsAge
<1> QED BY <1>a, <1>b, <1>c, <1>d, <1>e, <1>f, <1>g, <1>h, <1>i DEF AgeAt

LEMMA AgeFrame ==
  ASSUME IInv, IInv', AgeInv, NEW p \in Proc, Apart(p), KeepsAge, AgeAt(p)', AgeStore' PROVE AgeInv'
BY OtherAge DEF AgeInv, Apart

\* Steps that write nothing these facts are about.
LEMMA InertStore ==
  ASSUME StoreOK, AgeInv, UNCHANGED <<family, token, tomb, held, aged, next, ended>>, dirty' \subseteq dirty
  PROVE  KeepsAge /\ AgeStore'
<1>1. \A f \in Family : next[f] \in Nat
  BY GenAssumption DEF StoreOK
<1>2. KeepsAge
  BY <1>1 DEF KeepsAge
<1>3. AgeStore'
  BY DEF AgeInv, AgeStore, ReuseNeedsStaleToken
<1> QED BY <1>2, <1>3

LEMMA InertAge ==
  ASSUME IInv, IInv', AgeInv, NEW p \in Proc, Apart(p), AgeAt(p)',
         UNCHANGED <<family, token, tomb, held, aged, next, ended>>, dirty' \subseteq dirty
  PROVE  AgeInv'
BY InertStore, AgeFrame DEF IInv, TypeOK

LEMMA FinishAge == ASSUME LocalOK, NEW p \in Proc, Finish(p) PROVE AgeAt(p)'
<1>1. pc'[p] = "idle"
  BY DEF LocalOK, Finish
<1> QED BY <1>1 DEF AgeAt, InRefresh, InAccess, Marked

\* A label nothing is said of.
LEMMA ElsewhereAge ==
  ASSUME NEW p \in Proc,
         pc'[p] \notin InRefresh \cup InAccess \cup Marked
                       \cup {"issue_families_index", "rotated", "rev_family", "rev_mark"}
  PROVE  AgeAt(p)'
BY DEF AgeAt, InRefresh, InAccess

LEMMA CalledAge ==
  ASSUME LocalOK, NEW p \in Proc, NEW f, NEW s, NEW b, CallRevoke(p, f, s, b), s = "reused" => Stale(f)'
  PROVE  AgeAt(p)'
<1>1. pc'[p] = "rev_family" /\ item'[p] = f /\ mark'[p] = s
  BY DEF LocalOK, CallRevoke
<1>2. Stale(f)' <=> (~Grace \/ next'[f] >= 3 \/ \E n \in Gen : <<f, n>> \in aged')
  BY DEF Stale
<1>3. (mark[p] = "reused" => Stale(item[p]))'
  BY <1>1, <1>2 DEF Stale
<1> QED BY <1>1, <1>3 DEF AgeAt, InRefresh, InAccess, Marked
LEMMA RevokeOwnAge ==
  ASSUME LocalOK, NEW p \in Proc, NEW s, RevokeOwn(p, s), s = "reused" => Stale(req[p].fam)' PROVE AgeAt(p)'
BY CalledAge DEF RevokeOwn

\* What holds of a request past its arrival.
LEMMA Presented ==
  ASSUME IInv, AgeInv, NEW p \in Proc, pc[p] \in InRefresh \cup InAccess
  PROVE  /\ req[p].fam \in Family /\ req[p].gen \in Gen /\ Public(req[p].fam)
         /\ req[p].gen <= next[req[p].fam] /\ next[req[p].fam] \in Nat \ {0}
         /\ Me(p) \in Pair
         /\ req[p].fam \in ended \/ (family[req[p].fam].status = "active" /\ family[req[p].fam].cur = next[req[p].fam])
<1>1. req[p].fam \in Family /\ req[p].gen \in Gen /\ Public(req[p].fam)
  BY DEF IInv, HandlerInv, ControlAt, RefersAt, Early, InRefresh, InAccess
<1>2. next[req[p].fam] \in Nat \ {0}
  BY <1>1, GenAssumption DEF IInv, TypeOK, StoreOK, Public
<1>3. req[p].gen <= next[req[p].fam]
  BY DEF AgeInv, AgeAt
<1>4. req[p].fam \in ended \/ (family[req[p].fam].status = "active" /\ family[req[p].fam].cur = next[req[p].fam])
  BY <1>1 DEF Public, IInv, StoreInv, LastIsCurrent
<1> QED BY <1>1, <1>2, <1>3, <1>4 DEF Me, Pair

\* A request goes on to a label where only its own pair matters.
LEMMA ProceedAge ==
  ASSUME IInv, AgeInv, NEW p \in Proc, pc[p] \in InRefresh \cup InAccess,
         pc'[p] \in {"acc_family", "acc_revoked", "acc_user", "acc_context", "accepted", "ref_family",
                     "ref_revoked", "ref_session", "ref_anchor", "ref_user", "ref_context", "ref_watch"},
         req'[p] = req[p], next' = next
  PROVE  AgeAt(p)'
<1>1. req[p].gen <= next[req[p].fam]
  BY Presented
<1> QED BY <1>1 DEF AgeAt, InAccess, InRefresh, Marked

LEMMA IsRevokedAge ==
  ASSUME IInv, IInv', AgeInv, NEW p \in Proc, NEW a, NEW b, IsRevoked(p, a, b), pc[p] \in InRefresh \cup InAccess,
         b \in {"acc_user", "ref_session"} \/ (a = "ref_stale" /\ b = "cls_family")
                                          \/ (a = "cls_revoked" /\ b = "cls_decide")
  PROVE  AgeInv'
<1>1. LocalOK
  BY DEF IInv, TypeOK
<1>2. UNCHANGED <<family, token, tomb, held, aged, next, ended, dirty>> /\ Apart(p)
  BY <1>1, IsRevokedApart DEF IsRevoked, redis, jwt, hist
<1>3. CASE Finish(p)
  BY <1>1, <1>2, <1>3, FinishAge, InertAge
<1>4. CASE Proceed(p, b)
  <2>1. pc'[p] = b /\ pc[p] = a /\ req'[p] = req[p] /\ child'[p] = child[p] /\ copy'[p] = copy[p]
    BY <1>1, <1>4 DEF Proceed, IsRevoked, LocalOK, local, ctx
  <2>2. CASE b \in {"acc_user", "ref_session"}
    BY <1>2, <2>1, <2>2, ProceedAge, InertAge
  <2>3. CASE a = "ref_stale" /\ b = "cls_family"
    <3>1. Moved(p) /\ req[p].gen <= next[req[p].fam]
      BY <2>1, <2>3, Presented DEF AgeInv, AgeAt
    <3>2. AgeAt(p)'
      BY <1>2, <2>1, <2>3, <3>1 DEF AgeAt, Moved, Me, InAccess, InRefresh, Marked
    <3> QED BY <1>2, <3>2, InertAge
  <2>4. CASE a = "cls_revoked" /\ b = "cls_decide"
    <3>1. child[p] \in 2 .. next[req[p].fam] /\ copy[p].cur \in 2 .. next[req[p].fam] /\ req[p].gen <= next[req[p].fam]
      BY <2>1, <2>4, Presented DEF AgeInv, AgeAt
    <3>2. AgeAt(p)'
      BY <1>2, <2>1, <2>4, <3>1 DEF AgeAt, InAccess, InRefresh, Marked
    <3> QED BY <1>2, <3>2, InertAge
  <2> QED BY <2>2, <2>3, <2>4
<1> QED BY <1>3, <1>4 DEF IsRevoked

LEMMA CheckAge ==
  ASSUME IInv, IInv', AgeInv, NEW p \in Proc, NEW a, pc[p] \in InRefresh \cup InAccess,
         NEW b \in {"acc_context", "ref_context", "accepted", "ref_watch"},
         LoadActiveUser(p, a, b) \/ ReconstructContext(p, a, b)
  PROVE  AgeInv'
<1>1. LocalOK
  BY DEF IInv, TypeOK
<1>2. UNCHANGED <<family, token, tomb, held, aged, next, ended, dirty>> /\ Apart(p)
  BY <1>1, LoadApart, ReconstructApart DEF LoadActiveUser, ReconstructContext, redis, jwt, hist
<1>3. CASE RevokeOwn(p, "revoked")
  BY <1>1, <1>2, <1>3, RevokeOwnAge, InertAge
<1>4. CASE Proceed(p, b)
  <2>1. pc'[p] = b /\ req'[p] = req[p]
    BY <1>1, <1>4 DEF Proceed, LocalOK, local
  <2> QED BY <1>2, <2>1, ProceedAge, InertAge
<1> QED BY <1>3, <1>4 DEF LoadActiveUser, ReconstructContext

LEMMA AccessAge == ASSUME IInv, IInv', AgeInv, NEW p \in Proc, AccessSteps(p) PROVE AgeInv'
<1>1. LocalOK /\ Apart(p)
  BY AccessApart DEF IInv, TypeOK
<1>2. CASE AccessSession(p)
  <2>1. UNCHANGED <<family, token, tomb, held, aged, next, ended, dirty>>
    BY <1>2 DEF AccessSession, redis, jwt, hist
  <2>2. CASE Finish(p)
    BY <1>1, <2>1, <2>2, FinishAge, InertAge
  <2>3. CASE ~Finish(p)
    <3>1. pc[p] = "acc_session" /\ pc'[p] = "acc_family" /\ req' = req
      BY <1>1, <1>2, <2>3 DEF AccessSession, LocalOK
    <3> QED BY <1>1, <2>1, <3>1, ProceedAge, InertAge DEF InAccess
  <2> QED BY <2>2, <2>3
<1>3. CASE AccessFamily(p)
  <2>1. UNCHANGED <<family, token, tomb, held, aged, next, ended, dirty>> /\ pc[p] = "acc_family"
    BY <1>3 DEF AccessFamily, redis, jwt, hist
  <2>2. CASE Finish(p)
    BY <1>1, <2>1, <2>2, FinishAge, InertAge
  <2>3. CASE Proceed(p, "acc_revoked")
    <3>1. pc'[p] = "acc_revoked" /\ req' = req
      BY <1>1, <2>3 DEF Proceed, LocalOK, local
    <3> QED BY <1>1, <2>1, <3>1, ProceedAge, InertAge DEF InAccess
  <2> QED BY <1>3, <2>2, <2>3 DEF AccessFamily
<1>4. CASE Accepted(p)
  <2>1. UNCHANGED <<family, token, tomb, held, aged, next, ended, dirty>> /\ pc[p] = "accepted"
    BY <1>4 DEF Accepted, redis, jwt, hist
  <2>2. CASE Finish(p)
    BY <1>1, <2>1, <2>2, FinishAge, InertAge
  <2>3. CASE RevokeOwn(p, "revoked")
    BY <1>1, <2>1, <2>3, RevokeOwnAge, InertAge
  <2>4. CASE Proceed(p, "ref_family")
    <3>1. pc'[p] = "ref_family" /\ req' = req
      BY <1>1, <2>4 DEF Proceed, LocalOK, local
    <3> QED BY <1>1, <2>1, <3>1, ProceedAge, InertAge DEF InAccess
  <2>5. CASE pc' = [pc EXCEPT ![p] = "exc_sessions"]
    <3>1. pc'[p] = "exc_sessions"
      BY <1>1, <2>5 DEF LocalOK
    <3>2. AgeAt(p)'
      BY <3>1, ElsewhereAge DEF InRefresh, InAccess, Marked
    <3> QED BY <1>1, <2>1, <3>2, InertAge
  <2> QED BY <1>4, <2>2, <2>3, <2>4, <2>5 DEF Accepted
<1>5. CASE IsRevoked(p, "acc_revoked", "acc_user")
  <2>1. pc[p] \in InAccess
    BY <1>5 DEF IsRevoked, InAccess
  <2> QED BY <1>5, <2>1, IsRevokedAge
<1>6. CASE LoadActiveUser(p, "acc_user", "acc_context")
  <2>1. pc[p] \in InAccess
    BY <1>6 DEF LoadActiveUser, InAccess
  <2> QED BY <1>6, <2>1, CheckAge
<1>7. CASE ReconstructContext(p, "acc_context", "accepted")
  <2>1. pc[p] \in InAccess
    BY <1>7 DEF ReconstructContext, InAccess
  <2> QED BY <1>7, <2>1, CheckAge
<1> QED BY <1>2, <1>3, <1>4, <1>5, <1>6, <1>7 DEF AccessSteps

\* Reading the family's record: an active record names the last pair minted.
LEMMA ReadAge ==
  ASSUME IInv, IInv', AgeInv, NEW p \in Proc, RefreshFamilyRecord(p) \/ ClassifyFamily(p) PROVE AgeInv'
<1>1. LocalOK /\ StoreOK /\ Apart(p)
  BY RefreshApart DEF IInv, TypeOK, RefreshSteps
<1>2. UNCHANGED <<family, token, tomb, held, aged, next, ended, dirty>>
  BY DEF RefreshFamilyRecord, ClassifyFamily, redis, jwt, hist
<1>3. pc[p] \in InRefresh /\ req' = req /\ copy'[p] = family[req[p].fam]
  BY <1>1 DEF RefreshFamilyRecord, ClassifyFamily, Goto, LocalOK, InRefresh
<1>4. /\ req[p].fam \in Family /\ next[req[p].fam] \in Nat \ {0} /\ req[p].gen <= next[req[p].fam]
      /\ family[req[p].fam].status = "active" => /\ family[req[p].fam].cur = next[req[p].fam]
                                                 /\ req[p].fam \notin ended
  BY <1>3, Presented DEF IInv, StoreInv, LastIsCurrent, EndedIsFinal
<1>5. CASE RefreshFamilyRecord(p)
  <2>1. pc'[p] = "ref_token"
    BY <1>1, <1>5 DEF RefreshFamilyRecord, Goto, LocalOK
  <2>2. AgeAt(p)'
    BY <1>2, <1>3, <1>4, <2>1 DEF AgeAt, InRefresh, InAccess, Marked
  <2> QED BY <1>1, <1>2, <2>2, InertAge
<1>6. CASE ClassifyFamily(p)
  <2>1. pc[p] = "cls_family" /\ pc'[p] = "cls_token"
    BY <1>1, <1>6 DEF ClassifyFamily, Goto, LocalOK
  <2>2. Moved(p)
    BY <2>1 DEF AgeInv, AgeAt
  <2>3. copy'[p].status = "active" =>
           copy'[p].cur <= next[req[p].fam] /\ (copy'[p].cur >= 2 \/ token[Me(p)].st = "missing")
    BY <1>3, <1>4, <2>2 DEF Moved
  <2>4. Me(p)' = Me(p)
    BY <1>3 DEF Me
  <2>5. AgeAt(p)'
    BY <1>2, <1>3, <1>4, <2>1, <2>3, <2>4 DEF AgeAt, InRefresh, InAccess, Marked
  <2> QED BY <1>1, <1>2, <2>5, InertAge
<1> QED BY <1>5, <1>6

\* A token that is not current, or not the current pair's, has lost its place.
LEMMA TokenRecordAge == ASSUME IInv, IInv', AgeInv, NEW p \in Proc, RefreshTokenRecord(p) PROVE AgeInv'
<1>1. LocalOK /\ StoreOK /\ Apart(p)
  BY RefreshApart DEF IInv, TypeOK, RefreshSteps
<1>2. UNCHANGED <<family, token, tomb, held, aged, next, ended, dirty>> /\ pc[p] = "ref_token"
  BY DEF RefreshTokenRecord, redis, jwt, hist
<1>3. CASE Finish(p)
  BY <1>1, <1>2, <1>3, FinishAge, InertAge
<1>4. CASE ~Finish(p)
  <2>1. /\ copy[p].status = "active" /\ token[Me(p)].st # "missing"
        /\ Proceed(p, IF copy[p].cur = req[p].gen /\ token[Me(p)].st = "current" THEN "ref_revoked" ELSE "ref_stale")
    BY <1>4 DEF RefreshTokenRecord
  <2>2. req' = req /\ pc'[p] \in {"ref_revoked", "ref_stale"}
        /\ (pc'[p] = "ref_stale" => copy[p].cur # req[p].gen \/ token[Me(p)].st # "current")
    BY <1>1, <2>1 DEF Proceed, LocalOK, local
  <2>3. /\ req[p].fam \in Family /\ req[p].gen \in Gen /\ next[req[p].fam] \in Nat \ {0}
        /\ req[p].gen <= next[req[p].fam] /\ Me(p) \in Pair /\ Me(p) = <<req[p].fam, req[p].gen>>
    BY <1>2, Presented DEF InRefresh, Me
  <2>4. copy[p].cur \in 1 .. next[req[p].fam]
    BY <1>2, <2>1 DEF AgeInv, AgeAt
  <2>5. CASE pc'[p] = "ref_revoked"
    BY <1>1, <1>2, <2>2, <2>5, ProceedAge, InertAge DEF InRefresh
  <2>6. CASE pc'[p] = "ref_stale"
    <3>1. token[Me(p)].st \in {"current", "used"}
      BY <1>1, <2>1, <2>3 DEF StoreOK, TokenRecord
    <3>2. token[Me(p)].st = "used" => next[req[p].fam] >= 2
      <4>1. token[Me(p)].st = "used" => token[Me(p)].child \in 2 .. next[Me(p)[1]]
        BY <2>3 DEF AgeInv, AgeStore
      <4> QED BY <2>3, <4>1
    <3>3. next[req[p].fam] >= 2
      BY <2>2, <2>3, <2>4, <2>6, <3>1, <3>2 DEF Gen
    <3>4. AgeAt(p)'
      BY <1>2, <2>2, <2>3, <2>6, <3>3 DEF AgeAt, Moved, InRefresh, InAccess, Marked
    <3> QED BY <1>1, <1>2, <3>4, InertAge
  <2> QED BY <2>2, <2>5, <2>6
<1> QED BY <1>3, <1>4

\* The second look under WATCH: what it finds different is a rotation or the end.
LEMMA WatchAge == ASSUME IInv, IInv', AgeInv, NEW p \in Proc, RefreshWatch(p) PROVE AgeInv'
<1>1. LocalOK /\ StoreOK /\ Apart(p)
  BY RefreshApart DEF IInv, TypeOK, RefreshSteps
<1>2. /\ UNCHANGED <<family, token, tomb, held, aged, next, ended, req>> /\ pc[p] = "ref_watch"
      /\ dirty' = dirty \ {p}
  BY DEF RefreshWatch, redis, jwt, hist, local
<1>3. /\ req[p].fam \in Family /\ req[p].gen \in Gen /\ next[req[p].fam] \in Nat \ {0}
      /\ req[p].gen <= next[req[p].fam] /\ Me(p) \in Pair /\ Me(p) = <<req[p].fam, req[p].gen>>
      /\ req[p].fam \in ended \/ (family[req[p].fam].status = "active" /\ family[req[p].fam].cur = next[req[p].fam])
  BY <1>2, Presented DEF InRefresh, Me
<1>4. pc'[p] \in {"ref_exec", "cls_family"}
  BY <1>1 DEF RefreshWatch, LocalOK
<1>5. pc'[p] = "cls_family" => \/ family[req[p].fam].status # "active" \/ family[req[p].fam].cur # req[p].gen
                               \/ token[Me(p)].st # "current" \/ req[p].fam \in tomb
  BY <1>1 DEF RefreshWatch, LocalOK
<1>6. token[Me(p)].st = "used" => next[req[p].fam] >= 2
  <2>1. token[Me(p)].st = "used" => token[Me(p)].child \in 2 .. next[Me(p)[1]]
    BY <1>3 DEF AgeInv, AgeStore
  <2> QED BY <1>3, <2>1
<1>7. token[Me(p)].st \in {"missing", "current", "used"}
  BY <1>1, <1>3 DEF StoreOK, TokenRecord
<1>8. pc'[p] = "cls_family" => Moved(p)
  <2>1. req[p].fam \in tomb => req[p].fam \in ended
    BY DEF AgeInv, AgeStore
  <2> QED BY <1>3, <1>5, <1>6, <1>7, <2>1 DEF Moved, Gen
<1>9. AgeAt(p)'
  BY <1>2, <1>3, <1>4, <1>8 DEF AgeAt, Moved, Me, InRefresh, InAccess, Marked
<1> QED BY <1>1, <1>2, <1>9, InertAge

\* A used token's child was minted by its exchange; a copy made since the token
\* lost its place names a second pair at least.
LEMMA ClassifyTokenAge == ASSUME IInv, IInv', AgeInv, NEW p \in Proc, ClassifyToken(p) PROVE AgeInv'
<1>1. LocalOK /\ StoreOK /\ Apart(p)
  BY RefreshApart DEF IInv, TypeOK, RefreshSteps
<1>2. UNCHANGED <<family, token, tomb, held, aged, next, ended, dirty>> /\ pc[p] = "cls_token"
  BY DEF ClassifyToken, redis, jwt, hist
<1>3. CASE Finish(p)
  BY <1>1, <1>2, <1>3, FinishAge, InertAge
<1>4. CASE ~Finish(p)
  <2>1. /\ copy[p].status = "active" /\ token[Me(p)].st = "used" /\ copy' = copy /\ req' = req
        /\ pc'[p] = "cls_revoked" /\ child'[p] = token[Me(p)].child
    BY <1>1, <1>4 DEF ClassifyToken, LocalOK
  <2>2. /\ req[p].fam \in Family /\ next[req[p].fam] \in Nat \ {0} /\ req[p].gen <= next[req[p].fam]
        /\ Me(p) \in Pair /\ Me(p)[1] = req[p].fam
    BY <1>2, Presented DEF InRefresh, Me
  <2>3. token[Me(p)].child \in 2 .. next[req[p].fam]
    BY <2>1, <2>2 DEF AgeInv, AgeStore
  <2>4. copy[p].cur <= next[req[p].fam] /\ copy[p].cur >= 2 /\ copy[p].cur \in Nat
    BY <1>1, <1>2, <2>1, GenAssumption DEF AgeInv, AgeAt, LocalOK, FamilyRecord
  <2>5. AgeAt(p)'
    BY <1>2, <2>1, <2>2, <2>3, <2>4 DEF AgeAt, InRefresh, InAccess, Marked
  <2> QED BY <1>1, <1>2, <2>5, InertAge
<1> QED BY <1>3, <1>4

\* Two different pairs beyond the first make three; else the token is aged.
LEMMA DecideAge == ASSUME IInv, IInv', AgeInv, NEW p \in Proc, ClassifyDecide(p) PROVE AgeInv'
<1>1. LocalOK /\ StoreOK /\ Apart(p)
  BY RefreshApart DEF IInv, TypeOK, RefreshSteps
<1>2. UNCHANGED <<family, token, tomb, held, aged, next, ended, dirty>> /\ pc[p] = "cls_decide"
  BY DEF ClassifyDecide, redis, jwt, hist
<1>3. CASE Finish(p)
  BY <1>1, <1>2, <1>3, FinishAge, InertAge
<1>4. CASE ~Finish(p)
  <2>1. RevokeOwn(p, "reused") /\ ~Benign(p)
    BY <1>4 DEF ClassifyDecide
  <2>2. /\ req[p].fam \in Family /\ req[p].gen \in Gen /\ next[req[p].fam] \in Nat \ {0}
        /\ Me(p) = <<req[p].fam, req[p].gen>>
    BY <1>2, Presented DEF InRefresh, Me
  <2>3. child[p] \in 2 .. next[req[p].fam] /\ copy[p].cur \in 2 .. next[req[p].fam]
    BY <1>2 DEF AgeInv, AgeAt
  <2>4. ~Grace \/ Me(p) \in aged \/ child[p] # copy[p].cur
    BY <2>1 DEF Benign
  <2>5. Stale(req[p].fam)
    BY <2>2, <2>3, <2>4 DEF Stale
  <2>6. Stale(req[p].fam)'
    BY <1>2, <2>1, <2>5 DEF Stale, RevokeOwn
  <2> QED BY <1>1, <1>2, <2>1, <2>6, RevokeOwnAge, InertAge
<1> QED BY <1>3, <1>4

\* EXEC: one more pair is minted, and the token is used for it.
LEMMA ExecAge == ASSUME IInv, IInv', AgeInv, NEW p \in Proc, RefreshExec(p) PROVE AgeInv'
<1>1. LocalOK /\ StoreOK /\ Apart(p)
  BY RefreshApart DEF IInv, TypeOK, RefreshSteps
<1>2. CASE p \in dirty
  <2>1. UNCHANGED <<family, token, tomb, held, aged, next, ended, dirty, req>> /\ pc[p] = "ref_exec" /\ pc'[p] = "cls_family"
    BY <1>1, <1>2 DEF RefreshExec, Goto, redis, jwt, hist, local, LocalOK
  <2>2. Moved(p) /\ req[p].gen <= next[req[p].fam]
    BY <1>2, <2>1, Presented DEF AgeInv, AgeAt, InRefresh
  <2>3. AgeAt(p)'
    BY <2>1, <2>2 DEF AgeAt, Moved, Me, InRefresh, InAccess, Marked
  <2> QED BY <1>1, <2>1, <2>3, InertAge
<1>3. CASE p \notin dirty
  <2> DEFINE f == req[p].fam
             c == next[f] + 1
             n == req[p].gen
  <2>1. Exchanged(p, f, c)
    BY <1>3 DEF RefreshExec, Exchanged, Goto
  <2>2. /\ f \in Family /\ n \in Gen /\ c \in Gen /\ c = n + 1 /\ next[f] = n /\ Public(f) /\ f \notin ended
        /\ Me(p) = <<f, n>> /\ Me(p) \in Pair /\ <<f, c>> \in Pair /\ copy[p].status = "active"
    BY <2>1, ExchangeFacts
  <2>3. /\ UNCHANGED <<tomb, held, aged, ended, req>> /\ pc'[p] = "rotated" /\ child'[p] = c
        /\ next' = [next EXCEPT ![f] = c]
        /\ token' = [token EXCEPT ![Me(p)] = [st |-> "used", child |-> c], ![<<f, c>>] = [st |-> "current", child |-> 0]]
        /\ family' = [family EXCEPT ![f] = [copy[p] EXCEPT !.cur = c, !.scope = scope[p]]]
        /\ dirty' = dirty \cup Watchers(f)
    BY <1>1, <2>1 DEF Exchanged, Touch, LocalOK
  <2>4. n \in Nat \ {0} /\ <<f, n>> # <<f, c>>
    BY <2>2, GenAssumption DEF Gen
  <2>5. \A g \in Family : next[g] \in Nat
    BY <1>1, GenAssumption DEF StoreOK
  <2>6. \A g \in Family : next'[g] = IF g = f THEN c ELSE next[g]
    BY <1>1, <2>3 DEF StoreOK
  <2>7. \A k \in Pair : token'[k] = IF k = <<f, c>> THEN [st |-> "current", child |-> 0]
                                    ELSE IF k = <<f, n>> THEN [st |-> "used", child |-> c] ELSE token[k]
    BY <1>1, <2>2, <2>3 DEF StoreOK
  <2>8. KeepsAge
    <3>1. \A g \in Family : next[g] <= next'[g]
      BY <2>2, <2>4, <2>5, <2>6
    <3>2. ASSUME NEW g \in Family, NEW m \in Gen, m <= next[g], token[<<g, m>>].st = "missing"
          PROVE  token'[<<g, m>>].st = "missing"
      <4>1. token[<<f, n>>].st = "current"
        BY <2>1, <2>2 DEF Exchanged, IInv, Watched
      <4>2. <<g, m>> # <<f, c>>
        BY <2>2, <2>4, <3>2
      <4> QED BY <2>7, <3>2, <4>1, <4>2 DEF Pair
    <3>3. ASSUME NEW q \in Proc, q \in dirty' \ dirty, pc[q] = "ref_exec" PROVE next'[req[q].fam] >= 2
      BY <2>2, <2>3, <2>4, <2>6, <3>3 DEF Watchers
    <3> QED BY <2>3, <3>1, <3>2, <3>3 DEF KeepsAge
  <2>9. AgeAt(p)'
    <3>1. child'[p] <= next'[req'[p].fam]
      BY <2>2, <2>3, <2>4, <2>6
    <3> QED BY <2>3, <3>1 DEF AgeAt, InRefresh, InAccess, Marked
  <2>10. AgeStore'
    <3>1. (\A k \in held : k[2] <= next[k[1]])'
      <4> SUFFICES ASSUME NEW k \in held PROVE k[2] <= next'[k[1]]
        BY <2>3
      <4>1. k \in Pair /\ k[1] \in Family /\ k[2] \in Nat
        BY <1>1, GenAssumption DEF StoreOK, Pair, Gen
      <4> QED BY <2>2, <2>4, <2>5, <2>6, <4>1 DEF AgeInv, AgeStore
    <3>2. (\A k \in Pair : token[k].st = "used" => token[k].child \in 2 .. next[k[1]])'
      <4> SUFFICES ASSUME NEW k \in Pair, token'[k].st = "used" PROVE token'[k].child \in 2 .. next'[k[1]]
        OBVIOUS
      <4>1. k[1] \in Family
        BY DEF Pair
      <4>2. CASE k = <<f, n>>
        <5>1. token'[k].child = c /\ k[1] = f
          BY <2>4, <2>7, <4>2
        <5> QED BY <2>2, <2>4, <2>6, <5>1
      <4>3. CASE k # <<f, n>>
        <5>1. token'[k] = token[k] /\ token[k].st = "used"
          BY <2>7, <4>3
        <5>2. token[k].child \in 2 .. next[k[1]]
          BY <5>1 DEF AgeInv, AgeStore
        <5> QED BY <2>2, <2>4, <2>5, <2>6, <4>1, <5>1, <5>2
      <4> QED BY <4>2, <4>3
    <3>3. ReuseNeedsStaleToken'
      <4> SUFFICES ASSUME NEW g \in Family, family'[g].status = "reused"
                   PROVE  ~Grace \/ next'[g] >= 3 \/ \E m \in Gen : <<g, m>> \in aged
        BY <2>3 DEF ReuseNeedsStaleToken
      <4>1. g # f /\ family'[g] = family[g]
        BY <1>1, <2>2, <2>3 DEF StoreOK, LocalOK, FamilyRecord
      <4> QED BY <2>6, <4>1 DEF AgeInv, AgeStore, ReuseNeedsStaleToken
    <3> QED BY <2>3, <3>1, <3>2, <3>3 DEF AgeInv, AgeStore
  <2> QED BY <1>1, <2>8, <2>9, <2>10, AgeFrame
<1> QED BY <1>2, <1>3

LEMMA RefreshAge == ASSUME IInv, IInv', AgeInv, NEW p \in Proc, RefreshSteps(p) PROVE AgeInv'
<1>1. LocalOK /\ Apart(p)
  BY RefreshApart DEF IInv, TypeOK
<1>2. CASE RefreshSession(p)
  <2>1. UNCHANGED <<family, token, tomb, held, aged, next, ended, dirty>> /\ pc[p] = "ref_session"
    BY <1>2 DEF RefreshSession, redis, jwt, hist
  <2>2. CASE Finish(p)
    BY <1>1, <2>1, <2>2, FinishAge, InertAge
  <2>3. CASE ~Finish(p)
    <3>1. pc'[p] \in {"ref_anchor", "ref_user"} /\ req' = req
      BY <1>1, <1>2, <2>3 DEF RefreshSession, LocalOK, Proceed, local
    <3> QED BY <1>1, <2>1, <3>1, ProceedAge, InertAge DEF InRefresh
  <2> QED BY <2>2, <2>3
<1>3. CASE RefreshAnchor(p)
  <2>1. UNCHANGED <<family, token, tomb, held, aged, next, ended, dirty>> /\ pc[p] = "ref_anchor"
    BY <1>3 DEF RefreshAnchor, redis, jwt, hist
  <2>2. CASE Finish(p)
    BY <1>1, <2>1, <2>2, FinishAge, InertAge
  <2>3. CASE RevokeOwn(p, "revoked")
    BY <1>1, <2>1, <2>3, RevokeOwnAge, InertAge
  <2>4. CASE ~Finish(p) /\ ~RevokeOwn(p, "revoked")
    <3>1. pc'[p] = "ref_user" /\ req' = req
      BY <1>1, <1>3, <2>4 DEF RefreshAnchor, LocalOK
    <3> QED BY <1>1, <2>1, <3>1, ProceedAge, InertAge DEF InRefresh
  <2> QED BY <2>2, <2>3, <2>4
<1>4. CASE Rotated(p)
  <2>1. /\ UNCHANGED <<family, token, tomb, aged, next, ended, dirty>> /\ pc[p] = "rotated"
        /\ held' = held \cup {<<req[p].fam, child[p]>>} /\ AgeAt(p)'
    BY <1>1, <1>4, FinishAge DEF Rotated, redis, hist
  <2>2. \A f \in Family : next[f] \in Nat
    BY GenAssumption DEF IInv, TypeOK, StoreOK
  <2>3. KeepsAge
    BY <2>1, <2>2 DEF KeepsAge
  <2>4. child[p] <= next[req[p].fam]
    BY <2>1 DEF AgeInv, AgeAt
  <2>5. \A k \in held' : k[2] <= next[k[1]]
    BY <2>1, <2>4 DEF AgeInv, AgeStore
  <2>6. AgeStore'
    BY <2>1, <2>5 DEF AgeInv, AgeStore, ReuseNeedsStaleToken
  <2> QED BY <1>1, <2>1, <2>3, <2>6, AgeFrame
<1>5. CASE IsRevoked(p, "ref_revoked", "ref_session")
  <2>1. pc[p] \in InRefresh
    BY <1>5 DEF IsRevoked, InRefresh
  <2> QED BY <1>5, <2>1, IsRevokedAge
<1>6. CASE IsRevoked(p, "ref_stale", "cls_family")
  <2>1. pc[p] \in InRefresh
    BY <1>6 DEF IsRevoked, InRefresh
  <2> QED BY <1>6, <2>1, IsRevokedAge
<1>7. CASE IsRevoked(p, "cls_revoked", "cls_decide")
  <2>1. pc[p] \in InRefresh
    BY <1>7 DEF IsRevoked, InRefresh
  <2> QED BY <1>7, <2>1, IsRevokedAge
<1>8. CASE LoadActiveUser(p, "ref_user", "ref_context")
  <2>1. pc[p] \in InRefresh
    BY <1>8 DEF LoadActiveUser, InRefresh
  <2> QED BY <1>8, <2>1, CheckAge
<1>9. CASE ReconstructContext(p, "ref_context", "ref_watch")
  <2>1. pc[p] \in InRefresh
    BY <1>9 DEF ReconstructContext, InRefresh
  <2> QED BY <1>9, <2>1, CheckAge
<1> QED BY <1>2, <1>3, <1>4, <1>5, <1>6, <1>7, <1>8, <1>9, ReadAge, TokenRecordAge, WatchAge,
      ClassifyTokenAge, DecideAge, ExecAge DEF RefreshSteps

LEMMA RevokeAge == ASSUME IInv, IInv', AgeInv, NEW p \in Proc, RevokeSteps(p) PROVE AgeInv'
<1>1. LocalOK /\ StoreOK /\ Apart(p)
  BY RevokeApart DEF IInv, TypeOK
<1>2. \A f \in Family : next[f] \in Nat
  BY <1>1, GenAssumption DEF StoreOK
<1>3. ASSUME pc[p] \in InRevoke PROVE item[p] \in Family /\ Public(item[p])
  BY <1>3 DEF IInv, HandlerInv, ControlAt, RefersAt
<1>4. CASE RevokeFamily(p)
  <2>1. /\ UNCHANGED <<family, token, tomb, held, aged, next, ended, dirty, item, mark>>
        /\ pc[p] = "rev_family" /\ pc'[p] = "rev_mark"
    BY <1>1, <1>4 DEF RevokeFamily, Goto, LocalOK, redis, jwt, hist, rev
  <2>2. (mark[p] = "reused" => Stale(item[p]))'
    BY <2>1 DEF AgeInv, AgeAt, Stale
  <2>3. AgeAt(p)'
    BY <2>1, <2>2 DEF AgeAt, InRefresh, InAccess, Marked
  <2> QED BY <1>1, <2>1, <2>3, InertAge
<1>5. CASE RevokeMark(p)
  <2>1. /\ UNCHANGED <<token, tomb, held, aged, next, item>> /\ ended' = ended \cup {item[p]}
        /\ dirty' = dirty \cup Watchers(item[p])
        /\ pc[p] = "rev_mark" /\ pc'[p] = "rev_tomb"
        /\ family' = [family EXCEPT ![item[p]] = [copy[p] EXCEPT !.status = mark[p]]]
    BY <1>1, <1>5 DEF RevokeMark, Goto, LocalOK, jwt, local, rev, Touch
  <2>2. item[p] \in Family
    BY <1>3, <2>1 DEF InRevoke
  <2>3. KeepsAge
    BY <1>2, <2>1 DEF KeepsAge, Watchers
  <2>4. AgeAt(p)'
    BY <2>1 DEF AgeAt, InRefresh, InAccess, Marked
  <2>5. ReuseNeedsStaleToken'
    <3> SUFFICES ASSUME NEW g \in Family, family'[g].status = "reused" PROVE Stale(g)
      BY <2>1 DEF ReuseNeedsStaleToken, Stale
    <3>1. CASE g = item[p]
      <4>1. family'[g].status = mark[p]
        BY <1>1, <2>1, <2>2, <3>1 DEF LocalOK, StoreOK, FamilyRecord
      <4> QED BY <2>1, <3>1, <4>1 DEF AgeInv, AgeAt
    <3>2. CASE g # item[p]
      <4>1. family'[g] = family[g]
        BY <1>1, <2>1, <2>2, <3>2 DEF StoreOK
      <4> QED BY <4>1 DEF AgeInv, AgeStore, ReuseNeedsStaleToken, Stale
    <3> QED BY <3>1, <3>2
  <2>6. AgeStore'
    BY <2>1, <2>5 DEF AgeInv, AgeStore
  <2> QED BY <1>1, <2>3, <2>4, <2>6, AgeFrame
<1>6. CASE RevokeTomb(p) \/ RevokeAnchor(p)
  <2>1. /\ UNCHANGED <<family, token, held, aged, next, ended, item>>
        /\ tomb' \subseteq tomb \cup {item[p]}
        /\ dirty' = dirty \cup Watchers(item[p])
        /\ pc[p] \in Marked /\ pc'[p] \in Marked
    BY <1>1, <1>6 DEF RevokeTomb, RevokeAnchor, Goto, LocalOK, jwt, hist, local, rev, Touch, Marked
  <2>2. item[p] \in ended
    BY <2>1 DEF AgeInv, AgeAt
  <2>3. KeepsAge
    BY <1>2, <2>1, <2>2 DEF KeepsAge, Watchers
  <2>4. AgeAt(p)'
    BY <2>1, <2>2 DEF AgeAt, InRefresh, InAccess, Marked
  <2>5. AgeStore'
    BY <2>1, <2>2 DEF AgeInv, AgeStore, ReuseNeedsStaleToken
  <2> QED BY <1>1, <2>3, <2>4, <2>5, AgeFrame
<1>7. CASE RevokeIndex(p) \/ RevokeSession(p)
  <2>1. /\ UNCHANGED <<family, token, tomb, held, aged, next, ended, dirty, item>>
        /\ pc[p] \in Marked /\ pc'[p] \in Marked
    BY <1>1, <1>7 DEF RevokeIndex, RevokeSession, Goto, LocalOK, redis, jwt, hist, Marked
  <2>2. item[p] \in ended
    BY <2>1 DEF AgeInv, AgeAt
  <2>3. AgeAt(p)'
    BY <2>1, <2>2 DEF AgeAt, InRefresh, InAccess, Marked
  <2> QED BY <1>1, <2>1, <2>3, InertAge
<1>8. CASE RevokeReturn(p)
  <2>1. UNCHANGED <<family, token, tomb, held, aged, next, ended, dirty>>
    BY <1>8 DEF RevokeReturn, redis, jwt, hist
  <2>2. CASE Finish(p)
    BY <1>1, <2>1, <2>2, FinishAge, InertAge
  <2>3. CASE ~Finish(p)
    <3>1. pc'[p] = ret[p] /\ ret[p] \in {"idle", "all_revoke", "exc_drop", "exc_remove", "prj_drop"}
      BY <1>1, <1>8, <2>3 DEF RevokeReturn, Proceed, LocalOK
    <3>2. AgeAt(p)'
      BY <3>1, ElsewhereAge DEF InRefresh, InAccess, Marked
    <3> QED BY <1>1, <2>1, <3>2, InertAge
  <2> QED BY <2>2, <2>3
<1> QED BY <1>4, <1>5, <1>6, <1>7, <1>8 DEF RevokeSteps

\* A sign-in writes a family nobody refers to.
LEMMA IssueAge == ASSUME IInv, IInv', AgeInv, NEW p \in Proc, IssueSteps(p) PROVE AgeInv'
<1>1. LocalOK /\ StoreOK /\ Apart(p)
  BY IssueApart DEF IInv, TypeOK
<1>2. \A f \in Family : next[f] \in Nat
  BY <1>1, GenAssumption DEF StoreOK
<1> DEFINE f == req[p].fam
<1>3. ASSUME pc[p] \in Early
      PROVE  f \in Family /\ next[f] = 1 /\ req[p].gen = 1 /\ ~Public(f) /\ Me(p) = <<f, 1>>
             /\ \A q \in Proc : pc[q] = "ref_exec" => req[q].fam # f
  <2>1. f \in Family
    BY <1>3 DEF IInv, HandlerInv, ControlAt
  <2>2. Writing(p, f)
    BY <1>3 DEF Writing
  <2>3. ~Public(f)
    BY <2>2 DEF Public
  <2>4. ASSUME NEW q \in Proc, pc[q] = "ref_exec" PROVE req[q].fam # f
    BY <2>1, <2>3, <2>4 DEF IInv, HandlerInv, ControlAt, RefersAt, Early, InRefresh
  <2> QED BY <2>1, <2>2, <2>3, <2>4 DEF IInv, OneWriter, Me
<1>4. CASE IssueSession(p)
  <2>1. UNCHANGED <<family, token, tomb, held, aged, next, ended, dirty>> /\ pc'[p] = "issue_family"
    BY <1>1, <1>4 DEF IssueSession, Goto, LocalOK, jwt, hist
  <2>2. AgeAt(p)'
    BY <2>1, ElsewhereAge DEF InRefresh, InAccess, Marked
  <2> QED BY <1>1, <2>1, <2>2, InertAge
<1>5. CASE IssueFamily(p) \/ IssueToken(p) \/ IssueAnchor(p)
  <2>1. /\ pc[p] \in Early /\ pc'[p] \in {"issue_token", "issue_anchor", "issue_sessions_index"}
        /\ UNCHANGED <<tomb, held, aged, next, ended>> /\ dirty' = dirty \cup Watchers(f)
    BY <1>1, <1>5 DEF IssueFamily, IssueToken, IssueAnchor, Goto, LocalOK, jwt, hist, Touch, Early
  <2>2. /\ token' = token \/ token' = [token EXCEPT ![<<f, 1>>] = [st |-> "current", child |-> 0]]
        /\ family' = family \/ family' = [family EXCEPT ![f] = [status |-> "active", cur |-> 1, scope |-> scope[p]]]
    BY <1>3, <1>5, <2>1 DEF IssueFamily, IssueToken, IssueAnchor
  <2>3. KeepsAge
    <3>1. ASSUME NEW g \in Family, NEW m \in Gen, Public(g), token[<<g, m>>].st = "missing"
          PROVE  token'[<<g, m>>].st = "missing"
      <4>1. <<g, m>> # <<f, 1>>
        BY <1>3, <2>1, <3>1
      <4>2. token'[<<g, m>>] = token[<<g, m>>]
        BY <1>1, <2>2, <4>1 DEF StoreOK, Pair
      <4> QED BY <3>1, <4>2
    <3> QED BY <1>2, <1>3, <2>1, <3>1 DEF KeepsAge, Watchers
  <2>4. AgeAt(p)'
    BY <2>1, ElsewhereAge DEF InRefresh, InAccess, Marked
  <2>5. \A k \in Pair : token'[k].st = "used" => token'[k] = token[k]
    BY <1>1, <2>2 DEF StoreOK
  <2>6. \A g \in Family : family'[g].status = "reused" => family'[g] = family[g]
    BY <1>1, <2>2 DEF StoreOK
  <2>7. AgeStore'
    BY <2>1, <2>5, <2>6 DEF AgeInv, AgeStore, ReuseNeedsStaleToken
  <2> QED BY <1>1, <2>3, <2>4, <2>7, AgeFrame
<1>6. CASE IssueSessionsIndex(p)
  <2>1. /\ UNCHANGED <<family, token, tomb, held, aged, next, ended, dirty, req>>
        /\ pc[p] = "issue_sessions_index" /\ pc'[p] = "issue_families_index"
    BY <1>1, <1>6 DEF IssueSessionsIndex, Goto, LocalOK, jwt, hist, local
  <2>2. next[f] = 1 /\ req[p].gen = 1
    BY <1>3, <2>1 DEF Early
  <2>3. AgeAt(p)'
    BY <2>1, <2>2 DEF AgeAt, InRefresh, InAccess, Marked
  <2> QED BY <1>1, <2>1, <2>3, InertAge
<1>7. CASE IssueFamiliesIndex(p)
  <2>1. /\ UNCHANGED <<family, token, tomb, aged, next, ended, dirty>> /\ pc[p] = "issue_families_index"
        /\ held' = held \cup {Me(p)} /\ AgeAt(p)'
    BY <1>1, <1>7, FinishAge DEF IssueFamiliesIndex, hist
  <2>2. req[p].gen <= next[f]
    BY <2>1 DEF AgeInv, AgeAt
  <2>3. KeepsAge
    BY <1>2, <2>1 DEF KeepsAge
  <2>4. \A k \in held' : k[2] <= next[k[1]]
    BY <2>1, <2>2 DEF AgeInv, AgeStore, Me
  <2>5. AgeStore'
    BY <2>1, <2>4 DEF AgeInv, AgeStore, ReuseNeedsStaleToken
  <2> QED BY <1>1, <2>1, <2>3, <2>5, AgeFrame
<1> QED BY <1>4, <1>5, <1>6, <1>7 DEF IssueSteps

\* The loops of the sweeps only call revocations, and never for a reuse.
LEMMA SweepAge ==
  ASSUME IInv, IInv', AgeInv, NEW p \in Proc, AllSteps(p) \/ ExceptSteps(p) \/ ProjectSteps(p) PROVE AgeInv'
<1>1. LocalOK /\ Apart(p)
  BY AllApart, ExceptApart, ProjectApart DEF IInv, TypeOK
<1>2. UNCHANGED <<family, token, tomb, held, aged, next, ended, dirty>>
  BY DEF AllSteps, AllSessions, AllDelete, AllFamilies, AllRevoke, AllClear, ScanDelete, ScanReturn,
     ExceptSteps, ExceptSessions, ExceptSession, ExceptDrop, ExceptFamilies, ExceptFamily, ExceptRemove,
     ExceptReturn, ProjectSteps, ProjectSessions, ProjectSession, ProjectDrop, ProjectReturn, redis, jwt, hist
<1>3. CASE Finish(p)
  BY <1>1, <1>2, <1>3, FinishAge, InertAge
<1>4. ASSUME NEW f \in Family, NEW b, CallRevoke(p, f, "revoked", b) PROVE AgeInv'
  BY <1>1, <1>2, <1>4, CalledAge, InertAge
<1>5. CASE pc'[p] \in {"all_sessions", "all_delete", "all_revoke", "scan", "exc_session", "exc_drop",
                       "exc_family", "prj_session"}
  <2>1. AgeAt(p)'
    BY <1>5, ElsewhereAge DEF InRefresh, InAccess, Marked
  <2> QED BY <1>1, <1>2, <2>1, InertAge
<1>6. CASE AllSteps(p)
  <2>1. ASSUME AllRevoke(p) PROVE AgeInv'
    BY <1>1, <1>4, <2>1 DEF AllRevoke, LocalOK
  <2>2. ASSUME AllSteps(p), ~AllRevoke(p), ~Finish(p)
        PROVE  pc'[p] \in {"all_sessions", "all_delete", "all_revoke", "scan"}
    BY <1>1, <2>2 DEF AllSteps, AllSessions, AllDelete, AllFamilies, AllClear, ScanDelete, ScanReturn, Goto, LocalOK
  <2> QED BY <1>3, <1>5, <1>6, <2>1, <2>2
<1>7. CASE ExceptSteps(p)
  <2>1. ASSUME ExceptSession(p) PROVE AgeInv'
    <3>1. PICK k \in sess[p] : /\ \/ UNCHANGED pc
                                  \/ pc' = [pc EXCEPT ![p] = "exc_drop"]
                                  \/ CallRevoke(p, k[1], "revoked", "exc_drop")
      BY <2>1 DEF ExceptSession
    <3>2. k[1] \in Family /\ pc[p] = "exc_session"
      BY <1>1, <2>1 DEF LocalOK, Pair, ExceptSession
    <3>3. UNCHANGED pc \/ pc' = [pc EXCEPT ![p] = "exc_drop"] => pc'[p] \in {"exc_session", "exc_drop"}
      BY <1>1, <3>2 DEF LocalOK
    <3> QED BY <1>4, <1>5, <3>1, <3>2, <3>3
  <2>2. ASSUME ExceptFamily(p) PROVE AgeInv'
    <3>1. PICK f \in fams[p] : UNCHANGED pc \/ CallRevoke(p, f, "revoked", "exc_remove")
      BY <2>2 DEF ExceptFamily
    <3>2. f \in Family /\ pc[p] = "exc_family"
      BY <1>1, <2>2 DEF LocalOK, ExceptFamily
    <3> QED BY <1>4, <1>5, <3>1, <3>2
  <2>3. ASSUME ExceptSteps(p), ~ExceptSession(p), ~ExceptFamily(p), ~Finish(p)
        PROVE  pc'[p] \in {"exc_session", "exc_family"}
    BY <1>1, <2>3 DEF ExceptSteps, ExceptSessions, ExceptDrop, ExceptFamilies, ExceptRemove, ExceptReturn, Goto, LocalOK
  <2> QED BY <1>3, <1>5, <1>7, <2>1, <2>2, <2>3
<1>8. CASE ProjectSteps(p)
  <2>1. ASSUME ProjectSession(p) PROVE AgeInv'
    <3>1. PICK k \in sess[p] : UNCHANGED pc \/ CallRevoke(p, k[1], "revoked", "prj_drop")
      BY <2>1 DEF ProjectSession
    <3>2. k[1] \in Family /\ pc[p] = "prj_session"
      BY <1>1, <2>1 DEF LocalOK, Pair, ProjectSession
    <3> QED BY <1>4, <1>5, <3>1, <3>2
  <2>2. ASSUME ProjectSteps(p), ~ProjectSession(p), ~Finish(p) PROVE pc'[p] = "prj_session"
    BY <1>1, <2>2 DEF ProjectSteps, ProjectSessions, ProjectDrop, ProjectReturn, Goto, LocalOK
  <2> QED BY <1>3, <1>5, <1>8, <2>1, <2>2
<1> QED BY <1>6, <1>7, <1>8

LEMMA StartAge == ASSUME IInv, IInv', AgeInv, NEW p \in Proc, Start(p) PROVE AgeInv'
<1>1. LocalOK /\ StoreOK /\ Apart(p)
  BY StartApart DEF IInv, TypeOK
<1>2. ASSUME NEW f \in Family, NEW s, SignIn(p, f, s) PROVE AgeInv'
  <2>1. /\ UNCHANGED <<family, token, tomb, held, aged, ended, dirty>>
        /\ next[f] = 0 /\ next' = [next EXCEPT ![f] = 1] /\ pc'[p] = "issue_session"
    BY <1>1, <1>2 DEF SignIn, redis, LocalOK
  <2>2. \A g \in Family : next[g] \in Nat /\ next[g] <= next'[g] /\ next'[g] \in Nat
    BY <1>1, <2>1, GenAssumption DEF StoreOK
  <2>3. KeepsAge
    BY <2>1, <2>2 DEF KeepsAge
  <2>4. AgeAt(p)'
    BY <2>1, ElsewhereAge DEF InRefresh, InAccess, Marked
  <2>5. \A k \in held : k[2] <= next'[k[1]]
    <3> TAKE k \in held
    <3>1. k[1] \in Family /\ k[2] \in Nat /\ k[2] <= next[k[1]]
      BY <1>1, GenAssumption DEF AgeInv, AgeStore, StoreOK, Pair, Gen
    <3> QED BY <2>2, <3>1
  <2>6. \A k \in Pair : token[k].st = "used" => token[k].child \in 2 .. next'[k[1]]
    <3> SUFFICES ASSUME NEW k \in Pair, token[k].st = "used" PROVE token[k].child \in 2 .. next'[k[1]]
      OBVIOUS
    <3>1. k[1] \in Family /\ token[k].child \in 2 .. next[k[1]]
      BY DEF AgeInv, AgeStore, Pair
    <3> QED BY <2>2, <3>1
  <2>7. ReuseNeedsStaleToken'
    <3> SUFFICES ASSUME NEW g \in Family, family[g].status = "reused"
                 PROVE  ~Grace \/ next'[g] >= 3 \/ \E n \in Gen : <<g, n>> \in aged
      BY <2>1 DEF ReuseNeedsStaleToken
    <3> QED BY <2>2 DEF AgeInv, AgeStore, ReuseNeedsStaleToken
  <2>8. AgeStore'
    BY <2>1, <2>5, <2>6, <2>7 DEF AgeInv, AgeStore
  <2> QED BY <1>1, <2>3, <2>4, <2>8, AgeFrame
<1>3. ASSUME NEW o, NEW k \in Pair, NEW t, NEW to \in {"acc_session", "ref_family"}, Arrive(p, o, k, t, to) PROVE AgeInv'
  <2>1. /\ UNCHANGED <<family, token, tomb, held, aged, next, ended, dirty>>
        /\ k \in held /\ req'[p].fam = k[1] /\ req'[p].gen = k[2] /\ pc'[p] = to
    BY <1>1, <1>3 DEF Arrive, redis, jwt, hist, LocalOK, Call
  <2>2. req'[p].gen <= next[req'[p].fam]
    BY <2>1 DEF AgeInv, AgeStore
  <2>3. AgeAt(p)'
    BY <2>1, <2>2 DEF AgeAt, InRefresh, InAccess, Marked
  <2> QED BY <1>1, <2>1, <2>3, InertAge
<1>4. ASSUME NEW u \in User, NEW s \in Project, ResetPassword(p, u) \/ Deactivate(p, u) \/ RemoveAccess(p, u, s)
      PROVE  AgeInv'
  <2>1. UNCHANGED <<family, token, tomb, held, aged, next, ended, dirty>> /\ pc'[p] \in {"all_sessions", "prj_sessions"}
    BY <1>1, <1>4 DEF ResetPassword, Deactivate, RemoveAccess, StartSweep, redis, jwt, hist, LocalOK
  <2>2. AgeAt(p)'
    BY <2>1, ElsewhereAge DEF InRefresh, InAccess, Marked
  <2> QED BY <1>1, <2>1, <2>2, InertAge
<1>5. ASSUME NEW u \in User, ResetPassword(p, u) \/ Deactivate(p, u) PROVE AgeInv'
  <2>1. UNCHANGED <<family, token, tomb, held, aged, next, ended, dirty>> /\ pc'[p] = "all_sessions"
    BY <1>1, <1>5 DEF ResetPassword, Deactivate, StartSweep, redis, jwt, hist, LocalOK
  <2>2. AgeAt(p)'
    BY <2>1, ElsewhereAge DEF InRefresh, InAccess, Marked
  <2> QED BY <1>1, <2>1, <2>2, InertAge
<1> QED BY <1>2, <1>3, <1>4, <1>5 DEF Start, Login, PlatformLogin, Validate, Logout, ChangePassword,
     Refresh, SwitchProject

LEMMA EnvironmentAge == ASSUME IInv, IInv', AgeInv, Environment PROVE AgeInv'
<1>1. UNCHANGED <<pc, local>> /\ StoreOK
  BY EnvironmentApart DEF IInv, TypeOK
<1>2. \A f \in Family : next[f] \in Nat
  BY <1>1, GenAssumption DEF StoreOK
<1>3. ASSUME KeepsAge, AgeStore' PROVE AgeInv'
  <2>1. \A q \in Proc : AgeAt(q)'
    BY <1>1, <1>3, OtherAge DEF AgeInv, local, ctx, rev
  <2> QED BY <1>3, <2>1 DEF AgeInv
<1>4. ASSUME NEW k \in Pair, SessionExpires(k) PROVE AgeInv'
  <2>1. UNCHANGED <<family, token, tomb, held, aged, next, ended, dirty>>
    BY <1>4 DEF SessionExpires, jwt, hist
  <2> QED BY <1>1, <1>3, <2>1, InertStore
<1>5. ASSUME NEW k \in Pair, TokenExpires(k) PROVE AgeInv'
  <2>1. /\ UNCHANGED <<family, tomb, held, aged, next, ended>> /\ token[k].st = "used"
        /\ token' = [token EXCEPT ![k] = NoToken] /\ dirty' = dirty \cup Watchers(k[1])
    BY <1>5 DEF TokenExpires, jwt, hist, Touch
  <2>2. k[1] \in Family /\ next[k[1]] >= 2
    <3>1. k[1] \in Family /\ token[k].child \in 2 .. next[k[1]]
      BY <2>1 DEF AgeInv, AgeStore, Pair
    <3> QED BY <1>2, <3>1
  <2>3. \A j \in Pair : token'[j] = IF j = k THEN NoToken ELSE token[j]
    BY <1>1, <2>1 DEF StoreOK
  <2>4. KeepsAge
    <3>1. \A f \in Family, n \in Gen : token[<<f, n>>].st = "missing" => token'[<<f, n>>].st = "missing"
      BY <2>3 DEF NoToken, Pair
    <3> QED BY <1>2, <2>1, <2>2, <3>1 DEF KeepsAge, Watchers
  <2>5. \A j \in Pair : token'[j].st = "used" => token'[j] = token[j]
    BY <2>3 DEF NoToken
  <2>6. AgeStore'
    BY <2>1, <2>5 DEF AgeInv, AgeStore, ReuseNeedsStaleToken
  <2> QED BY <1>3, <2>4, <2>6
<1>6. ASSUME NEW k \in Pair, GraceEnds(k) PROVE AgeInv'
  <2>1. UNCHANGED <<family, token, tomb, held, next, ended, dirty>> /\ aged' = aged \cup {k}
    BY <1>6 DEF GraceEnds, redis, jwt, hist
  <2>2. KeepsAge
    BY <1>2, <2>1 DEF KeepsAge
  <2>3. AgeStore'
    BY <2>1 DEF AgeInv, AgeStore, ReuseNeedsStaleToken
  <2> QED BY <1>3, <2>2, <2>3
<1>7. ASSUME NEW f \in Family, FamilyExpires(f) PROVE AgeInv'
  <2>1. /\ UNCHANGED <<held, aged, next>> /\ tomb' = tomb \ {f} /\ ended' = ended \cup {f}
        /\ token' = [k \in Pair |-> IF k[1] = f THEN NoToken ELSE token[k]]
        /\ family' = [family EXCEPT ![f] = NoFamily] /\ dirty' = dirty \cup Watchers(f)
    BY <1>7 DEF FamilyExpires, jwt, Touch
  <2>2. KeepsAge
    <3>1. \A g \in Family, n \in Gen : token[<<g, n>>].st = "missing" => token'[<<g, n>>].st = "missing"
      BY <2>1 DEF NoToken, Pair
    <3> QED BY <1>2, <2>1, <3>1 DEF KeepsAge, Watchers
  <2>3. \A k \in Pair : token'[k].st = "used" => token'[k] = token[k]
    BY <2>1 DEF NoToken
  <2>4. \A g \in Family : family'[g].status = "reused" => family'[g] = family[g]
    BY <1>1, <2>1 DEF StoreOK, NoFamily
  <2>5. AgeStore'
    BY <2>1, <2>3, <2>4 DEF AgeInv, AgeStore, ReuseNeedsStaleToken
  <2> QED BY <1>3, <2>2, <2>5
<1>8. ASSUME NEW u \in User, NEW s \in Project, Grant(u, s) PROVE AgeInv'
  <2>1. UNCHANGED <<family, token, tomb, held, aged, next, ended, dirty>>
    BY <1>8 DEF Grant, redis, jwt, hist
  <2> QED BY <1>1, <1>3, <2>1, InertStore
<1> QED BY <1>4, <1>5, <1>6, <1>7, <1>8 DEF Environment

LEMMA AgeInit == Init => AgeInv
<1> SUFFICES ASSUME Init PROVE AgeInv
  OBVIOUS
<1>1. AgeStore
  BY DEF Init, AgeStore, ReuseNeedsStaleToken, NoFamily, NoToken
<1>2. \A p \in Proc : AgeAt(p)
  BY DEF Init, AgeAt, InRefresh, InAccess, Marked
<1> QED BY <1>1, <1>2 DEF AgeInv

LEMMA AgeNext == IInv /\ AgeInv /\ [Next]_vars => AgeInv'
<1> SUFFICES ASSUME IInv, AgeInv, [Next]_vars PROVE AgeInv'
  OBVIOUS
<1>1. IInv'
  BY NextInv
<1>2. ASSUME NEW p \in Proc, Start(p) \/ Step(p) PROVE AgeInv'
  BY <1>1, <1>2, StartAge, IssueAge, AccessAge, RefreshAge, RevokeAge, SweepAge DEF Step
<1>3. ASSUME NEW p \in Proc, Crash(p) PROVE AgeInv'
  <2>1. UNCHANGED <<family, token, tomb, held, aged, next, ended, dirty>> /\ Finish(p) /\ LocalOK
    BY <1>3 DEF Crash, redis, jwt, hist, IInv, TypeOK
  <2> QED BY <1>1, <2>1, FinishAge, FinishApart, InertAge
<1>4. CASE Environment
  BY <1>1, <1>4, EnvironmentAge
<1>5. CASE UNCHANGED vars
  BY <1>5 DEF vars, redis, jwt, hist, local, ctx, rev, AgeInv, AgeStore, AgeAt, ReuseNeedsStaleToken,
     Moved, Me, Stale
<1> QED BY <1>2, <1>3, <1>4, <1>5 DEF Next

\* Duplicates of a refresh, however many and however delayed between their Redis
\* commands, do not get the family marked reused: that takes a token whose grace is
\* over, or one from two rotations back (classify_refresh_token_state,
\* _is_benign_refresh_replay in auth_lifecycle.py).
THEOREM DuplicatesAreHarmless == Spec => []ReuseNeedsStaleToken
<1>1. Spec => [](IInv /\ AgeInv)
  <2>1. Spec => []IInv
    BY Invariance
  <2> QED BY <2>1, AgeInit, AgeNext, PTL DEF Spec
<1>2. IInv /\ AgeInv => ReuseNeedsStaleToken
  BY DEF AgeInv, AgeStore
<1> QED BY <1>1, <1>2, PTL

-----------------------------------------------------------------------------
(* Sweeps: what a sweep still has to do covers what it was called to end. *)

InFamily == {"rev_family", "rev_mark"} \cup Marked
Revokes(p, back) == pc[p] \in InFamily /\ ret[p] = back

\* Between the SMEMBERS of the family index and its DEL.
Window(p) == pc[p] = "all_revoke" \/ Revokes(p, "all_revoke")

\* No sign-in enters its family in the index that a full sweep is about to delete.
NoSignInMeanwhile ==
    \A p, q \in Proc : pc[p] = "issue_families_index" /\ Window(q) => req[p].user # req[q].user

\* No access session of family f is left.
Bare(f) == \A n \in Gen : session[<<f, n>>] = None

\* No record of a family runs out before the family is revoked.
Lasting == "family_ttl" \notin Events

\* The families a sweep need not see again: they have ended and, while records
\* last, have lost their sessions too.
Done == IF Lasting THEN {f \in ended : Bare(f)} ELSE ended

\* The family a sweep is revoking.
AtHand(p) == {f \in Family : item[p] = f /\ pc[p] \in InFamily}

\* Families a client of u holds a first token of are done with or in the index.
Listed == \A u \in User : Delivered(u) \subseteq Done \cup ufam[u]

SweepAt(p) ==
    /\ seen[p] \subseteq Done
    /\ pc[p] \in Early \cup {"issue_families_index"} => req[p].user = Owner[req[p].fam]
    /\ pc[p] = "rotated" => child[p] # 1
    /\ pc[p] \in {"exc_drop", "exc_remove"} => item[p] \in Done
    /\ pc[p] \in {"all_sessions", "all_delete"} \/ Window(p) => cover[p] \subseteq Delivered(req[p].user)
    /\ Window(p) => Delivered(req[p].user) \subseteq Done \cup fams[p] \cup AtHand(p)
    /\ pc[p] = "scan" => cover[p] \subseteq Done
    /\ pc[p] \in {"exc_sessions", "exc_session", "exc_drop"} \/ Revokes(p, "exc_drop") =>
          cover[p] \subseteq Delivered(req[p].user) /\ req[p].fam \notin cover[p]
    /\ pc[p] \in {"exc_family", "exc_remove"} \/ Revokes(p, "exc_remove") =>
          cover[p] \subseteq Done \cup fams[p] \cup AtHand(p) /\ req[p].fam \notin cover[p]

SweepInv == swept \subseteq Done /\ Listed /\ \A p \in Proc : SweepAt(p)

LEMMA OtherSweep ==
  ASSUME NEW q \in Proc, SweepAt(q), Done \subseteq Done',
         \A u : Delivered(u) \subseteq Delivered(u)',
         Window(q) => Delivered(req[q].user)' = Delivered(req[q].user),
         pc'[q] = pc[q], req'[q] = req[q], child'[q] = child[q], item'[q] = item[q], ret'[q] = ret[q],
         fams'[q] = fams[q], seen'[q] = seen[q], cover'[q] = cover[q]
  PROVE  SweepAt(q)'
<1> DEFINE D == Delivered(req[q].user)
           E == Delivered(req[q].user)'
<1>1. D \subseteq E /\ (Window(q) => E = D)
  OBVIOUS
<1>2. AtHand(q)' = AtHand(q)
  BY DEF AtHand
<1>3. \A b : Revokes(q, b)' <=> Revokes(q, b)
  BY DEF Revokes
<1>4. Window(q)' <=> Window(q)
  BY <1>3 DEF Window
<1>5. /\ seen[q] \subseteq Done
      /\ pc[q] \in Early \cup {"issue_families_index"} => req[q].user = Owner[req[q].fam]
      /\ pc[q] = "rotated" => child[q] # 1
      /\ pc[q] \in {"exc_drop", "exc_remove"} => item[q] \in Done
      /\ pc[q] \in {"all_sessions", "all_delete"} \/ Window(q) => cover[q] \subseteq D
      /\ Window(q) => D \subseteq Done \cup fams[q] \cup AtHand(q)
      /\ pc[q] = "scan" => cover[q] \subseteq Done
      /\ pc[q] \in {"exc_sessions", "exc_session", "exc_drop"} \/ Revokes(q, "exc_drop") =>
            cover[q] \subseteq D /\ req[q].fam \notin cover[q]
      /\ pc[q] \in {"exc_family", "exc_remove"} \/ Revokes(q, "exc_remove") =>
            cover[q] \subseteq Done \cup fams[q] \cup AtHand(q) /\ req[q].fam \notin cover[q]
  BY DEF SweepAt
<1>6. SweepAt(q)' <=>
      /\ seen[q] \subseteq Done'
      /\ pc[q] \in Early \cup {"issue_families_index"} => req[q].user = Owner[req[q].fam]
      /\ pc[q] = "rotated" => child[q] # 1
      /\ pc[q] \in {"exc_drop", "exc_remove"} => item[q] \in Done'
      /\ pc[q] \in {"all_sessions", "all_delete"} \/ Window(q) => cover[q] \subseteq E
      /\ Window(q) => E \subseteq Done' \cup fams[q] \cup AtHand(q)
      /\ pc[q] = "scan" => cover[q] \subseteq Done'
      /\ pc[q] \in {"exc_sessions", "exc_session", "exc_drop"} \/ Revokes(q, "exc_drop") =>
            cover[q] \subseteq E /\ req[q].fam \notin cover[q]
      /\ pc[q] \in {"exc_family", "exc_remove"} \/ Revokes(q, "exc_remove") =>
            cover[q] \subseteq Done' \cup fams[q] \cup AtHand(q) /\ req[q].fam \notin cover[q]
  BY <1>2, <1>3, <1>4 DEF SweepAt, Delivered
<1> HIDE DEF D, E
<1> QED BY <1>1, <1>5, <1>6

\* A step that delivers nothing leaves what was delivered.
LEMMA SameDelivered == ASSUME held' = held PROVE \A u : Delivered(u)' = Delivered(u)
BY DEF Delivered

\* A step that delivers no family, and takes only those done with out of the index.
LEMMA SweepFrame ==
  ASSUME SweepInv, NEW p \in Proc, Apart(p), SweepAt(p)', \A u : Delivered(u)' = Delivered(u),
         Done \subseteq Done', swept' \subseteq swept \cup Done',
         \A u \in User : ufam[u] \subseteq ufam'[u] \cup Done'
  PROVE  SweepInv'
<1>1. \A q \in Proc \ {p} : SweepAt(q)'
  BY OtherSweep DEF SweepInv, Apart
<1>2. Listed'
  <2> SUFFICES ASSUME NEW u \in User PROVE Delivered(u)' \subseteq Done' \cup ufam'[u]
    BY DEF Listed
  <2>1. Delivered(u) \subseteq Done \cup ufam[u]
    BY DEF SweepInv, Listed
  <2> QED BY <2>1
<1> QED BY <1>1, <1>2 DEF SweepInv

\* A step that writes none of them.
LEMMA InertSweep ==
  ASSUME SweepInv, NEW p \in Proc, Apart(p), SweepAt(p)', UNCHANGED <<held, ufam, swept>>, Done \subseteq Done'
  PROVE  SweepInv'
BY SameDelivered, SweepFrame

\* Labels at which a handler sweeps nothing.
LEMMA NoSweep ==
  ASSUME NEW p \in Proc,
         pc'[p] \in InAccess \cup InRefresh \cup {"idle", "prj_sessions", "prj_session", "prj_drop"}
           \/ (pc'[p] \in InFamily /\ ret'[p] \in {"idle", "prj_drop"}),
         seen'[p] \subseteq Done'
  PROVE  SweepAt(p)'
BY DEF SweepAt, Window, Revokes, InFamily, Marked, InAccess, InRefresh, Early

LEMMA FinishSweep == ASSUME LocalOK, NEW p \in Proc, Finish(p) PROVE SweepAt(p)'
<1>1. pc'[p] = "idle" /\ seen'[p] = {}
  BY DEF LocalOK, Finish
<1> QED BY <1>1, NoSweep

LEMMA OwnSweep ==
  ASSUME LocalOK, SweepInv, NEW p \in Proc, NEW s, RevokeOwn(p, s), Done \subseteq Done' PROVE SweepAt(p)'
<1>1. pc'[p] = "rev_family" /\ ret'[p] = "idle" /\ seen'[p] = seen[p]
  BY DEF LocalOK, RevokeOwn, CallRevoke, loop
<1> QED BY <1>1, NoSweep DEF InFamily, SweepInv, SweepAt

LEMMA CallsSweep ==
  ASSUME LocalOK, NEW p \in Proc, NEW f \in Family, NEW s, NEW b, CallRevoke(p, f, s, b)
  PROVE  pc'[p] = "rev_family" /\ ret'[p] = b /\ item'[p] = f
BY DEF LocalOK, CallRevoke

LEMMA AccessSweep == ASSUME IInv, SweepInv, NEW p \in Proc, AccessSteps(p), Done \subseteq Done' PROVE SweepInv'
<1>1. LocalOK /\ StoreOK /\ Apart(p)
  BY AccessApart DEF IInv, TypeOK
<1>2. UNCHANGED <<held, ufam, swept>>
  BY DEF AccessSteps, AccessSession, AccessFamily, IsRevoked, LoadActiveUser, ReconstructContext, Accepted,
     redis, jwt, hist
<1>3. ASSUME NEW to \in InAccess \cup InRefresh, pc'[p] = to, seen' = seen PROVE SweepInv'
  <2>1. SweepAt(p)'
    BY <1>2, <1>3, NoSweep DEF SweepInv, SweepAt
  <2> QED BY <1>1, <1>2, <2>1, InertSweep
<1>4. ASSUME Finish(p) \/ RevokeOwn(p, "revoked") PROVE SweepInv'
  <2>1. SweepAt(p)'
    BY <1>1, <1>2, <1>4, FinishSweep, OwnSweep
  <2> QED BY <1>1, <1>2, <2>1, InertSweep
<1>5. ASSUME NEW to \in InAccess \cup InRefresh, Proceed(p, to) PROVE SweepInv'
  BY <1>1, <1>3, <1>5 DEF Proceed, LocalOK, local, loop
<1>6. ASSUME Accepted(p), req[p].op = "password_change" PROVE SweepInv'
  <2>1. /\ pc'[p] = "exc_sessions" /\ cover'[p] = Delivered(req[p].user) \ {req[p].fam}
        /\ UNCHANGED <<req, seen, held>>
    BY <1>1, <1>2, <1>6 DEF Accepted, LocalOK
  <2>2. SweepAt(p)'
    BY <1>2, <2>1 DEF SweepAt, SweepInv, Window, Revokes, InFamily, Marked, Early, Delivered
  <2> QED BY <1>1, <1>2, <2>2, InertSweep
<1>7. ASSUME AccessSession(p) PROVE SweepInv'
  <2>1. Finish(p) \/ (pc'[p] = "acc_family" /\ seen' = seen)
    BY <1>1, <1>7 DEF AccessSession, LocalOK, loop
  <2> QED BY <1>3, <1>4, <2>1 DEF InAccess
<1> QED BY <1>4, <1>5, <1>6, <1>7 DEF AccessSteps, AccessFamily, IsRevoked, LoadActiveUser, ReconstructContext,
      Accepted, InAccess, InRefresh

LEMMA RefreshSweep == ASSUME IInv, SweepInv, NEW p \in Proc, RefreshSteps(p), Done \subseteq Done' PROVE SweepInv'
<1>1. LocalOK /\ StoreOK /\ Apart(p)
  BY RefreshApart DEF IInv, TypeOK
<1>2. ASSUME UNCHANGED <<held, ufam, swept>>, NEW to \in InAccess \cup InRefresh, pc'[p] = to, seen' = seen
      PROVE  SweepInv'
  <2>1. SweepAt(p)'
    BY <1>2, NoSweep DEF SweepInv, SweepAt
  <2> QED BY <1>1, <1>2, <2>1, InertSweep
<1>3. ASSUME UNCHANGED <<held, ufam, swept>>, NEW s, Finish(p) \/ RevokeOwn(p, s) PROVE SweepInv'
  <2>1. SweepAt(p)'
    BY <1>1, <1>3, FinishSweep, OwnSweep
  <2> QED BY <1>1, <1>3, <2>1, InertSweep
<1>4. ASSUME UNCHANGED <<held, ufam, swept>>, NEW to \in InAccess \cup InRefresh, Proceed(p, to) PROVE SweepInv'
  BY <1>1, <1>2, <1>4 DEF Proceed, LocalOK, local, loop
<1>5. ASSUME RefreshFamilyRecord(p) \/ ClassifyFamily(p) \/ RefreshWatch(p) PROVE SweepInv'
  <2>1. pc'[p] \in InRefresh /\ seen' = seen /\ UNCHANGED <<held, ufam, swept>>
    BY <1>1, <1>5 DEF RefreshFamilyRecord, ClassifyFamily, RefreshWatch, Goto, LocalOK, redis, jwt, hist, loop, local, InRefresh
  <2> QED BY <1>2, <2>1
<1>6. ASSUME RefreshSession(p) \/ RefreshAnchor(p) \/ ClassifyToken(p) PROVE SweepInv'
  <2>1. UNCHANGED <<held, ufam, swept>>
    BY <1>6 DEF RefreshSession, RefreshAnchor, ClassifyToken, redis, jwt, hist
  <2>2. \/ Finish(p) \/ RevokeOwn(p, "revoked") \/ Proceed(p, "ref_anchor")
        \/ pc'[p] \in {"ref_user", "cls_revoked"} /\ seen' = seen
    BY <1>1, <1>6 DEF RefreshSession, RefreshAnchor, ClassifyToken, LocalOK, loop
  <2> QED BY <1>2, <1>3, <1>4, <2>1, <2>2 DEF InRefresh
<1>7. ASSUME RefreshTokenRecord(p) PROVE SweepInv'
  <2>1. UNCHANGED <<held, ufam, swept>>
    BY <1>7 DEF RefreshTokenRecord, redis, jwt, hist
  <2> QED BY <1>3, <1>4, <1>7, <2>1 DEF RefreshTokenRecord, InRefresh
<1>8. ASSUME RefreshExec(p) PROVE SweepInv'
  <2>1. CASE p \in dirty
    <3>1. pc'[p] \in InRefresh /\ seen' = seen /\ UNCHANGED <<held, ufam, swept>>
      BY <1>1, <1>8, <2>1 DEF RefreshExec, Goto, LocalOK, redis, jwt, hist, loop, local, InRefresh
    <3> QED BY <1>2, <3>1
  <2>2. CASE p \notin dirty
    <3>1. Exchanged(p, req[p].fam, next[req[p].fam] + 1)
      BY <1>8, <2>2 DEF RefreshExec, Exchanged, Goto
    <3>2. next[req[p].fam] = req[p].gen /\ req[p].gen \in Gen /\ req[p].fam \in Family
      BY <3>1, ExchangeFacts
    <3>3. next[req[p].fam] + 1 # 1
      BY <3>2, GenAssumption DEF Gen
    <3>4. /\ pc'[p] = "rotated" /\ child'[p] = next[req[p].fam] + 1 /\ UNCHANGED <<held, swept, seen>>
          /\ \A u \in User : ufam[u] \subseteq ufam'[u]
      BY <1>1, <3>1 DEF Exchanged, LocalOK, StoreOK, loop
    <3>5. SweepAt(p)'
      BY <3>3, <3>4 DEF SweepInv, SweepAt, Window, Revokes, InFamily, Marked, Early
    <3> QED BY <1>1, <3>4, <3>5, SameDelivered, SweepFrame
  <2> QED BY <2>1, <2>2
<1>9. ASSUME Rotated(p) PROVE SweepInv'
  <2>1. held' = held \cup {<<req[p].fam, child[p]>>} /\ UNCHANGED <<ufam, swept>> /\ SweepAt(p)' /\ child[p] # 1
    BY <1>1, <1>9, FinishSweep DEF Rotated, redis, hist, SweepInv, SweepAt
  <2>2. \A u : Delivered(u)' = Delivered(u)
    BY <2>1 DEF Delivered
  <2> QED BY <1>1, <2>1, <2>2, SweepFrame
<1>10. ASSUME NEW a, NEW b \in InRefresh,
              IsRevoked(p, a, b) \/ LoadActiveUser(p, a, b) \/ ReconstructContext(p, a, b) PROVE SweepInv'
  <2>1. UNCHANGED <<held, ufam, swept>>
    BY <1>10 DEF IsRevoked, LoadActiveUser, ReconstructContext, redis, jwt, hist
  <2> QED BY <1>3, <1>4, <1>10, <2>1 DEF IsRevoked, LoadActiveUser, ReconstructContext
<1>11. ASSUME ClassifyDecide(p) PROVE SweepInv'
  <2>1. UNCHANGED <<held, ufam, swept>>
    BY <1>11 DEF ClassifyDecide, redis, jwt, hist
  <2> QED BY <1>3, <1>11, <2>1 DEF ClassifyDecide
<1> QED BY <1>5, <1>6, <1>7, <1>8, <1>9, <1>10, <1>11 DEF RefreshSteps, InRefresh

\* The family at hand is done with when the revocation returns.
LEMMA RevokeSweep ==
  ASSUME IInv, SweepInv, NEW p \in Proc, RevokeSteps(p), Done \subseteq Done',
         pc[p] = "rev_sessions" /\ keys[p] = {} => item[p] \in Done
  PROVE  SweepInv'
<1>1. LocalOK /\ StoreOK /\ Apart(p)
  BY RevokeApart DEF IInv, TypeOK
<1>2. UNCHANGED <<held, ufam, swept>>
  BY DEF RevokeSteps, RevokeFamily, RevokeMark, RevokeTomb, RevokeAnchor, RevokeIndex, RevokeSession, RevokeReturn,
     redis, jwt, hist
<1>3. \A u : Delivered(u)' = Delivered(u)
  BY <1>2, SameDelivered
<1> DEFINE D == Delivered(req[p].user)
<1>4. ASSUME UNCHANGED <<req, item, ret, fams, seen, cover>>, pc[p] \in InFamily, pc'[p] \in InFamily PROVE SweepInv'
  <2>1. Delivered(req[p].user)' = D
    BY <1>3, <1>4
  <2>2. AtHand(p)' = AtHand(p)
    BY <1>4 DEF AtHand
  <2>3. \A b : Revokes(p, b)' <=> Revokes(p, b)
    BY <1>4 DEF Revokes
  <2>4. Window(p)' <=> Window(p)
    BY <1>4, <2>3 DEF Window, InFamily, Marked
  <2>5. /\ seen[p] \subseteq Done
        /\ Window(p) => cover[p] \subseteq D /\ D \subseteq Done \cup fams[p] \cup AtHand(p)
        /\ Revokes(p, "exc_drop") => cover[p] \subseteq D /\ req[p].fam \notin cover[p]
        /\ Revokes(p, "exc_remove") => cover[p] \subseteq Done \cup fams[p] \cup AtHand(p) /\ req[p].fam \notin cover[p]
    BY DEF SweepInv, SweepAt
  <2>6. SweepAt(p)' <=>
        /\ seen[p] \subseteq Done'
        /\ Window(p) => cover[p] \subseteq D /\ D \subseteq Done' \cup fams[p] \cup AtHand(p)
        /\ Revokes(p, "exc_drop") => cover[p] \subseteq D /\ req[p].fam \notin cover[p]
        /\ Revokes(p, "exc_remove") => cover[p] \subseteq Done' \cup fams[p] \cup AtHand(p) /\ req[p].fam \notin cover[p]
    <3>1. pc'[p] \notin Early \cup {"issue_families_index", "rotated", "exc_drop", "exc_remove", "all_sessions",
                                    "all_delete", "scan", "exc_sessions", "exc_session", "exc_family"}
      BY <1>4 DEF InFamily, Marked, Early
    <3> HIDE DEF D
    <3> QED BY <1>4, <2>1, <2>2, <2>3, <2>4, <3>1 DEF SweepAt
  <2> HIDE DEF D
  <2>7. SweepAt(p)'
    BY <2>5, <2>6
  <2> QED BY <1>1, <1>2, <2>7, InertSweep
<1>5. CASE RevokeFamily(p) \/ RevokeMark(p)
  <2>1. pc[p] \in InFamily /\ pc'[p] \in InFamily /\ UNCHANGED <<req, item, ret, fams, seen, cover>>
    BY <1>1, <1>5 DEF RevokeFamily, RevokeMark, Goto, LocalOK, local, rev, loop, InFamily, Marked
  <2> QED BY <1>4, <2>1
<1>6. CASE RevokeTomb(p) \/ RevokeAnchor(p) \/ RevokeIndex(p) \/ RevokeSession(p)
  <2>1. pc[p] \in Marked /\ pc'[p] \in Marked /\ UNCHANGED <<req, item, ret, fams, seen, cover>>
    BY <1>1, <1>6 DEF RevokeTomb, RevokeAnchor, RevokeIndex, RevokeSession, Goto, LocalOK, local, rev, loop, Marked
  <2> QED BY <1>4, <2>1 DEF InFamily
<1>7. CASE RevokeReturn(p)
  <2>1. CASE Finish(p)
    BY <1>1, <1>2, <2>1, FinishSweep, InertSweep
  <2>2. CASE ~Finish(p)
    <3>1. /\ pc[p] = "rev_sessions" /\ pc'[p] = ret[p] /\ ret[p] \in {"all_revoke", "exc_drop", "exc_remove", "prj_drop"}
          /\ UNCHANGED <<req, item, ret, fams, seen, cover>>
      BY <1>1, <1>7, <2>2 DEF RevokeReturn, Proceed, LocalOK, local, rev, loop
    <3>2. item[p] \in Done
      BY <1>7, <3>1 DEF RevokeReturn
    <3>3. Delivered(req[p].user)' = D
      BY <1>3, <3>1
    <3>4. Revokes(p, ret[p]) /\ (ret[p] = "all_revoke" => Window(p)) /\ AtHand(p) \subseteq Done
      BY <3>1, <3>2 DEF Revokes, Window, InFamily, Marked, AtHand
    <3>5. /\ seen[p] \subseteq Done
          /\ ret[p] = "all_revoke" => cover[p] \subseteq D /\ D \subseteq Done \cup fams[p]
          /\ ret[p] = "exc_drop" => cover[p] \subseteq D /\ req[p].fam \notin cover[p]
          /\ ret[p] = "exc_remove" => cover[p] \subseteq Done \cup fams[p] /\ req[p].fam \notin cover[p]
      BY <3>4 DEF SweepInv, SweepAt
    <3> HIDE DEF D
    <3>6. ~Revokes(p, "all_revoke")' /\ ~Revokes(p, "exc_drop")' /\ ~Revokes(p, "exc_remove")'
      BY <3>1 DEF Revokes, InFamily, Marked
    <3>7. SweepAt(p)'
      BY <3>1, <3>2, <3>3, <3>5, <3>6 DEF SweepAt, Window, Early
    <3> QED BY <1>1, <1>2, <3>7, InertSweep
  <2> QED BY <2>1, <2>2
<1> QED BY <1>5, <1>6, <1>7 DEF RevokeSteps

\* A sign-in delivers a family once it is in its user's index.
LEMMA IssueSweep ==
  ASSUME IInv, SweepInv, NoSignInMeanwhile, NEW p \in Proc, IssueSteps(p), Done \subseteq Done' PROVE SweepInv'
<1>1. LocalOK /\ StoreOK /\ Apart(p)
  BY IssueApart DEF IInv, TypeOK
<1>2. CASE IssueSession(p) \/ IssueFamily(p) \/ IssueToken(p) \/ IssueAnchor(p) \/ IssueSessionsIndex(p)
  <2>1. /\ pc[p] \in Early /\ pc'[p] \in Early \cup {"issue_families_index"}
        /\ UNCHANGED <<held, ufam, swept, req, seen>>
    BY <1>1, <1>2 DEF IssueSession, IssueFamily, IssueToken, IssueAnchor, IssueSessionsIndex, Goto, LocalOK, local,
       jwt, hist, loop, Early
  <2>2. SweepAt(p)'
    BY <2>1 DEF SweepAt, SweepInv, Window, Revokes, InFamily, Marked, Early
  <2> QED BY <1>1, <2>1, <2>2, InertSweep
<1>3. CASE IssueFamiliesIndex(p)
  <2> DEFINE v == req[p].user
             f == req[p].fam
  <2>1. /\ pc[p] = "issue_families_index" /\ held' = held \cup {Me(p)} /\ UNCHANGED swept
        /\ ufam' = [ufam EXCEPT ![v] = @ \cup {f}] /\ SweepAt(p)'
    BY <1>1, <1>3, FinishSweep DEF IssueFamiliesIndex, hist
  <2>2. v = Owner[f] /\ v \in User /\ f \in Family
    BY <2>1 DEF SweepInv, SweepAt, IInv, HandlerInv, ControlAt
  <2>3. \A u : Delivered(u) \subseteq Delivered(u)' /\ Delivered(u)' \subseteq Delivered(u) \cup {f}
    BY <2>1 DEF Delivered, Me
  <2>4. \A u : u # v => Delivered(u)' = Delivered(u)
    BY <2>1, <2>2 DEF Delivered, Me
  <2>5. \A q \in Proc \ {p} : SweepAt(q)'
    <3> SUFFICES ASSUME NEW q \in Proc, q # p PROVE SweepAt(q)'
      OBVIOUS
    <3>1. Window(q) => req[q].user # v
      BY <2>1 DEF NoSignInMeanwhile
    <3> HIDE DEF v, f
    <3>2. req'[q] = req[q]
      BY <1>1 DEF Apart
    <3>3. Window(q) => Delivered(req[q].user)' = Delivered(req[q].user)
      BY <2>4, <3>1, <3>2
    <3>4. /\ pc'[q] = pc[q] /\ child'[q] = child[q] /\ item'[q] = item[q] /\ ret'[q] = ret[q]
          /\ fams'[q] = fams[q] /\ seen'[q] = seen[q] /\ cover'[q] = cover[q]
      BY <1>1 DEF Apart
    <3>5. SweepAt(q) /\ Done \subseteq Done'
      BY <2>1 DEF SweepInv
    <3> QED BY <2>3, <3>2, <3>3, <3>4, <3>5, OtherSweep
  <2>6. Listed'
    <3> SUFFICES ASSUME NEW u \in User PROVE Delivered(u)' \subseteq Done' \cup ufam'[u]
      BY DEF Listed
    <3>1. Delivered(u) \subseteq Done \cup ufam[u]
      BY DEF SweepInv, Listed
    <3>2. ufam[u] \subseteq ufam'[u] /\ (u = v => f \in ufam'[u])
      BY <1>1, <2>1 DEF StoreOK
    <3> HIDE DEF v, f
    <3> QED BY <2>1, <2>3, <2>4, <3>1, <3>2
  <2> QED BY <2>1, <2>5, <2>6 DEF SweepInv
<1> QED BY <1>2, <1>3 DEF IssueSteps

\* What the labels of the two sweeps ask of the handler that is there.
LEMMA AtAll ==
  ASSUME NEW p \in Proc, pc'[p] \in {"all_sessions", "all_delete", "all_revoke", "scan"}, seen'[p] \subseteq Done',
         pc'[p] # "scan" => cover'[p] \subseteq Delivered(req[p].user)',
         pc'[p] = "all_revoke" => Delivered(req[p].user)' \subseteq Done' \cup fams'[p],
         pc'[p] = "scan" => cover'[p] \subseteq Done'
  PROVE  SweepAt(p)'
<1>1. ~Revokes(p, "all_revoke")' /\ ~Revokes(p, "exc_drop")' /\ ~Revokes(p, "exc_remove")'
  BY DEF Revokes, InFamily, Marked
<1> QED BY <1>1 DEF SweepAt, Window, Early

LEMMA AtExcept ==
  ASSUME NEW p \in Proc, pc'[p] \in {"exc_sessions", "exc_session", "exc_drop", "exc_family", "exc_remove"},
         seen'[p] \subseteq Done', req'[p].fam \notin cover'[p], pc'[p] = "exc_drop" => item'[p] \in Done',
         pc'[p] \in {"exc_sessions", "exc_session", "exc_drop"} => cover'[p] \subseteq Delivered(req[p].user)',
         pc'[p] = "exc_family" => cover'[p] \subseteq Done' \cup fams'[p],
         pc'[p] # "exc_remove"
  PROVE  SweepAt(p)'
<1>1. ~Revokes(p, "all_revoke")' /\ ~Revokes(p, "exc_drop")' /\ ~Revokes(p, "exc_remove")'
  BY DEF Revokes, InFamily, Marked
<1> QED BY <1>1 DEF SweepAt, Window, Early

LEMMA AllSweep == ASSUME IInv, SweepInv, NEW p \in Proc, AllSteps(p), Done \subseteq Done' PROVE SweepInv'
<1>1. LocalOK /\ StoreOK /\ Apart(p)
  BY AllApart DEF IInv, TypeOK
<1>2. held' = held
  BY DEF AllSteps, AllSessions, AllDelete, AllFamilies, AllRevoke, AllClear, ScanDelete, ScanReturn, jwt, hist
<1>3. \A u : Delivered(u)' = Delivered(u)
  BY <1>2, SameDelivered
<1> DEFINE D == Delivered(req[p].user)
<1>4. req' = req => Delivered(req[p].user)' = D
  BY <1>3
<1>5. /\ seen[p] \subseteq Done
      /\ pc[p] \in {"all_sessions", "all_delete", "all_revoke"} => cover[p] \subseteq D
      /\ pc[p] = "all_revoke" => D \subseteq Done \cup fams[p]
      /\ pc[p] = "scan" => cover[p] \subseteq Done
  BY DEF SweepInv, SweepAt, Window, AtHand, InFamily, Marked
<1>6. pc[p] # "idle" => req[p].user \in User
  BY DEF IInv, HandlerInv, ControlAt
<1>7. CASE AllSessions(p) \/ AllDelete(p) \/ ScanDelete(p)
  <2>1. /\ UNCHANGED <<ufam, swept, req, seen, cover>>
        /\ \/ pc[p] \in {"all_sessions", "all_delete"} /\ pc'[p] = "all_delete"
           \/ pc[p] = "scan" /\ pc'[p] = "scan"
    BY <1>1, <1>7 DEF AllSessions, AllDelete, ScanDelete, Goto, LocalOK, redis, hist, local, loop
  <2> HIDE DEF D
  <2>2. SweepAt(p)'
    BY <1>2, <1>4, <1>5, <2>1, AtAll
  <2> QED BY <1>1, <1>2, <2>1, <2>2, InertSweep
<1>8. CASE AllFamilies(p)
  <2>1. /\ UNCHANGED <<ufam, swept, req, seen, cover>> /\ fams'[p] = ufam[req[p].user]
        /\ pc[p] = "all_delete" /\ pc'[p] = "all_revoke"
    BY <1>1, <1>8 DEF AllFamilies, Goto, LocalOK, redis, hist
  <2>2. D \subseteq Done \cup ufam[req[p].user]
    BY <1>6, <2>1 DEF SweepInv, Listed
  <2> HIDE DEF D
  <2>3. SweepAt(p)'
    BY <1>2, <1>4, <1>5, <2>1, <2>2, AtAll
  <2> QED BY <1>1, <1>2, <2>1, <2>3, InertSweep
<1>9. CASE AllRevoke(p)
  <2>1. PICK f \in fams[p] : fams' = [fams EXCEPT ![p] = @ \ {f}] /\ CallRevoke(p, f, "revoked", "all_revoke")
    BY <1>9 DEF AllRevoke
  <2>2. f \in Family /\ pc[p] = "all_revoke" /\ UNCHANGED <<ufam, swept, req, seen, cover>>
    BY <1>1, <1>9 DEF AllRevoke, LocalOK, redis, hist
  <2>3. pc'[p] = "rev_family" /\ ret'[p] = "all_revoke" /\ item'[p] = f /\ fams'[p] = fams[p] \ {f}
    BY <1>1, <2>1, <2>2, CallsSweep DEF LocalOK
  <2>4. AtHand(p)' = {f}
    BY <2>2, <2>3 DEF AtHand, InFamily
  <2>5. ~Revokes(p, "exc_drop")' /\ ~Revokes(p, "exc_remove")'
    BY <2>3 DEF Revokes
  <2> HIDE DEF D
  <2>6. SweepAt(p)'
    BY <1>2, <1>4, <1>5, <2>2, <2>3, <2>4, <2>5 DEF SweepAt, Early
  <2> QED BY <1>1, <1>2, <2>2, <2>6, InertSweep
<1>10. CASE AllClear(p)
  <2> DEFINE v == req[p].user
  <2>1. /\ pc[p] = "all_revoke" /\ fams[p] = {} /\ ufam' = [ufam EXCEPT ![v] = {}]
        /\ swept' \subseteq swept \cup cover[p]
    BY <1>10 DEF AllClear
  <2>2. D \subseteq Done /\ cover[p] \subseteq D /\ v \in User
    BY <1>5, <1>6, <2>1
  <2>3. \/ Finish(p)
        \/ pc'[p] \in {"all_sessions", "scan"} /\ req'[p].user = v /\ seen'[p] = seen[p] /\ cover'[p] = cover[p]
    BY <1>1, <1>10 DEF AllClear, LocalOK, loop, Call
  <2>4. SweepAt(p)'
    <3>1. CASE Finish(p)
      BY <1>1, <3>1, FinishSweep
    <3>2. CASE ~Finish(p)
      <4>1. Delivered(req[p].user)' = D
        BY <1>3, <2>3, <3>2
      <4> HIDE DEF D, v
      <4> QED BY <1>2, <1>5, <2>2, <2>3, <3>2, <4>1, AtAll
    <3> QED BY <3>1, <3>2
  <2>5. \A q \in Proc \ {p} : SweepAt(q)'
    BY <1>1, <1>2, <1>3, OtherSweep DEF SweepInv, Apart
  <2>6. Listed'
    <3> SUFFICES ASSUME NEW u \in User PROVE Delivered(u) \subseteq Done \cup ufam'[u]
      BY <1>2, <1>3 DEF Listed
    <3>1. Delivered(u) \subseteq Done \cup ufam[u]
      BY DEF SweepInv, Listed
    <3>2. u = v \/ ufam'[u] = ufam[u]
      BY <1>1, <2>1 DEF StoreOK
    <3> QED BY <2>2, <3>1, <3>2
  <2> HIDE DEF D
  <2> QED BY <1>2, <2>1, <2>2, <2>4, <2>5, <2>6 DEF SweepInv
<1>11. CASE ScanReturn(p)
  <2>1. pc[p] = "scan" /\ swept' = swept \cup cover[p] /\ ufam' = ufam /\ SweepAt(p)'
    BY <1>1, <1>11, FinishSweep DEF ScanReturn, redis
  <2> QED BY <1>1, <1>2, <1>3, <1>5, <2>1, SweepFrame
<1> QED BY <1>7, <1>8, <1>9, <1>10, <1>11 DEF AllSteps

LEMMA ExceptSweep == ASSUME IInv, SweepInv, NEW p \in Proc, ExceptSteps(p), Done \subseteq Done' PROVE SweepInv'
<1>1. LocalOK /\ StoreOK /\ Apart(p)
  BY ExceptApart DEF IInv, TypeOK
<1>2. held' = held
  BY DEF ExceptSteps, ExceptSessions, ExceptSession, ExceptDrop, ExceptFamilies, ExceptFamily, ExceptRemove, ExceptReturn,
     redis, jwt, hist
<1>3. \A u : Delivered(u)' = Delivered(u)
  BY <1>2, SameDelivered
<1> DEFINE D == Delivered(req[p].user)
<1>4. req' = req => Delivered(req[p].user)' = D
  BY <1>3
<1>5. /\ seen[p] \subseteq Done
      /\ pc[p] \in {"exc_drop", "exc_remove"} => item[p] \in Done
      /\ pc[p] \in {"exc_sessions", "exc_session", "exc_drop"} => cover[p] \subseteq D /\ req[p].fam \notin cover[p]
      /\ pc[p] \in {"exc_family", "exc_remove"} => cover[p] \subseteq Done \cup fams[p] /\ req[p].fam \notin cover[p]
  BY DEF SweepInv, SweepAt, AtHand, InFamily, Marked
<1>6. pc[p] # "idle" => req[p].user \in User
  BY DEF IInv, HandlerInv, ControlAt
<1>7. CASE ExceptSessions(p)
  <2>1. /\ UNCHANGED <<ufam, swept, req, seen, cover>> /\ pc[p] = "exc_sessions" /\ pc'[p] = "exc_session"
    BY <1>1, <1>7 DEF ExceptSessions, Goto, LocalOK, redis, hist
  <2> HIDE DEF D
  <2>2. SweepAt(p)'
    BY <1>2, <1>4, <1>5, <2>1, AtExcept
  <2> QED BY <1>1, <1>2, <2>1, <2>2, InertSweep
<1>8. CASE ExceptSession(p)
  <2>1. pc[p] = "exc_session" /\ UNCHANGED <<ufam, swept, req, seen, cover>>
    BY <1>8 DEF ExceptSession, hist
  <2>2. PICK k \in sess[p] :
           \/ UNCHANGED pc
           \/ pc' = [pc EXCEPT ![p] = "exc_drop"] /\ item' = [item EXCEPT ![p] = k[1]] /\ k[1] \in seen[p]
           \/ CallRevoke(p, k[1], "revoked", "exc_drop")
    BY <1>8 DEF ExceptSession
  <2>3. k[1] \in Family
    BY <1>1 DEF LocalOK, Pair
  <2>4. CASE CallRevoke(p, k[1], "revoked", "exc_drop")
    <3>1. pc'[p] = "rev_family" /\ ret'[p] = "exc_drop"
      BY <1>1, <2>3, <2>4, CallsSweep
    <3>2. ~Revokes(p, "all_revoke")' /\ ~Revokes(p, "exc_remove")'
      BY <3>1 DEF Revokes
    <3> HIDE DEF D
    <3>3. SweepAt(p)'
      BY <1>2, <1>4, <1>5, <2>1, <3>1, <3>2 DEF SweepAt, Window, Early
    <3> QED BY <1>1, <1>2, <2>1, <3>3, InertSweep
  <2>5. CASE ~CallRevoke(p, k[1], "revoked", "exc_drop")
    <3>1. pc'[p] = "exc_session" \/ (pc'[p] = "exc_drop" /\ item'[p] \in seen[p])
      BY <1>1, <2>1, <2>2, <2>5 DEF LocalOK
    <3> HIDE DEF D
    <3>2. SweepAt(p)'
      BY <1>2, <1>4, <1>5, <2>1, <3>1, AtExcept
    <3> QED BY <1>1, <1>2, <2>1, <3>2, InertSweep
  <2> QED BY <2>4, <2>5
<1>9. CASE ExceptDrop(p) \/ ExceptRemove(p)
  <2> DEFINE v == req[p].user
             f == item[p]
  <2>1. /\ pc[p] \in {"exc_drop", "exc_remove"} /\ UNCHANGED <<swept, req, cover, fams>>
        /\ seen' = [seen EXCEPT ![p] = @ \cup {f}]
        /\ pc'[p] = IF pc[p] = "exc_drop" THEN "exc_session" ELSE "exc_family"
    BY <1>1, <1>9 DEF ExceptDrop, ExceptRemove, Goto, LocalOK, hist
  <2>2. \E S \in {ufam[v], ufam[v] \ {f}} : ufam' = [ufam EXCEPT ![v] = S]
    BY <1>9 DEF ExceptDrop, ExceptRemove
  <2> HIDE DEF D, v, f
  <2>3. \A u \in User : ufam[u] \subseteq ufam'[u] \cup {f}
    BY <1>1, <2>2 DEF StoreOK
  <2>4. seen'[p] = seen[p] \cup {f}
    BY <1>1, <2>1 DEF LocalOK
  <2>5. f \in Done
    BY <1>5, <2>1 DEF f
  <2>6. SweepAt(p)'
    BY <1>2, <1>4, <1>5, <2>1, <2>4, <2>5, AtExcept
  <2> QED BY <1>1, <1>2, <1>3, <1>5, <2>1, <2>3, <2>5, <2>6, SweepFrame
<1>10. CASE ExceptFamilies(p)
  <2>1. /\ UNCHANGED <<ufam, swept, req, seen, cover>> /\ pc[p] = "exc_session" /\ pc'[p] = "exc_family"
        /\ fams'[p] = ufam[req[p].user]
    BY <1>1, <1>10 DEF ExceptFamilies, Goto, LocalOK, redis, hist
  <2>2. D \subseteq Done \cup ufam[req[p].user]
    BY <1>6, <2>1 DEF SweepInv, Listed
  <2> HIDE DEF D
  <2>3. SweepAt(p)'
    BY <1>2, <1>4, <1>5, <2>1, <2>2, AtExcept
  <2> QED BY <1>1, <1>2, <2>1, <2>3, InertSweep
<1>11. CASE ExceptFamily(p)
  <2>1. pc[p] = "exc_family" /\ UNCHANGED <<ufam, swept, req, seen, cover>>
    BY <1>11 DEF ExceptFamily, redis, hist
  <2>2. PICK f \in fams[p] :
           /\ fams' = [fams EXCEPT ![p] = @ \ {f}]
           /\ IF f = req[p].fam \/ f \in seen[p] THEN UNCHANGED <<pc, rev>>
              ELSE CallRevoke(p, f, "revoked", "exc_remove")
    BY <1>11 DEF ExceptFamily
  <2>3. f \in Family /\ fams'[p] = fams[p] \ {f}
    BY <1>1, <2>2 DEF LocalOK
  <2>4. CASE f = req[p].fam \/ f \in seen[p]
    <3> HIDE DEF D
    <3>1. pc'[p] = "exc_family"
      BY <2>1, <2>2, <2>4
    <3>2. SweepAt(p)'
      BY <1>2, <1>4, <1>5, <2>1, <2>3, <2>4, <3>1, AtExcept
    <3> QED BY <1>1, <1>2, <2>1, <3>2, InertSweep
  <2>5. CASE ~(f = req[p].fam \/ f \in seen[p])
    <3>1. pc'[p] = "rev_family" /\ ret'[p] = "exc_remove" /\ item'[p] = f
      BY <1>1, <2>2, <2>3, <2>5, CallsSweep
    <3>2. AtHand(p)' = {f}
      BY <2>3, <3>1 DEF AtHand, InFamily
    <3>3. ~Revokes(p, "all_revoke")' /\ ~Revokes(p, "exc_drop")'
      BY <3>1 DEF Revokes
    <3> HIDE DEF D
    <3>4. SweepAt(p)'
      BY <1>2, <1>5, <2>1, <2>3, <3>1, <3>2, <3>3 DEF SweepAt, Window, Early
    <3> QED BY <1>1, <1>2, <2>1, <3>4, InertSweep
  <2> QED BY <2>4, <2>5
<1>12. CASE ExceptReturn(p)
  <2>1. pc[p] = "exc_family" /\ fams[p] = {} /\ swept' = swept \cup cover[p] /\ ufam' = ufam /\ SweepAt(p)'
    BY <1>1, <1>12, FinishSweep DEF ExceptReturn, redis
  <2> QED BY <1>1, <1>2, <1>3, <1>5, <2>1, SweepFrame
<1> QED BY <1>7, <1>8, <1>9, <1>10, <1>11, <1>12 DEF ExceptSteps

LEMMA ProjectSweep == ASSUME IInv, SweepInv, NEW p \in Proc, ProjectSteps(p), Done \subseteq Done' PROVE SweepInv'
<1>1. LocalOK /\ Apart(p) /\ seen[p] \subseteq Done
  BY ProjectApart DEF IInv, TypeOK, SweepInv, SweepAt
<1>2. UNCHANGED <<held, ufam, swept>>
  BY DEF ProjectSteps, ProjectSessions, ProjectSession, ProjectDrop, ProjectReturn, redis, jwt, hist
<1>3. CASE ProjectReturn(p)
  BY <1>1, <1>2, <1>3, FinishSweep, InertSweep DEF ProjectReturn
<1>4. CASE ProjectSessions(p) \/ ProjectDrop(p)
  <2>1. pc'[p] \in {"prj_session", "prj_drop"} /\ seen' = seen
    BY <1>1, <1>4 DEF ProjectSessions, ProjectDrop, Goto, LocalOK
  <2> QED BY <1>1, <1>2, <2>1, NoSweep, InertSweep
<1>5. CASE ProjectSession(p)
  <2>1. PICK k \in sess[p] : UNCHANGED pc \/ CallRevoke(p, k[1], "revoked", "prj_drop")
    BY <1>5 DEF ProjectSession
  <2>2. k[1] \in Family /\ pc[p] = "prj_session" /\ seen' = seen
    BY <1>1, <1>5 DEF ProjectSession, LocalOK, Pair
  <2>3. pc'[p] = "prj_session" \/ (pc'[p] = "rev_family" /\ ret'[p] = "prj_drop")
    BY <1>1, <2>1, <2>2, CallsSweep
  <2>4. SweepAt(p)'
    BY <1>1, <1>2, <2>2, <2>3, NoSweep DEF InFamily
  <2> QED BY <1>1, <1>2, <2>4, InertSweep
<1> QED BY <1>3, <1>4, <1>5 DEF ProjectSteps

LEMMA StartSweeps == ASSUME IInv, SweepInv, NEW p \in Proc, Start(p), Done \subseteq Done' PROVE SweepInv'
<1>1. LocalOK /\ Apart(p) /\ seen[p] \subseteq Done
  BY StartApart DEF IInv, TypeOK, SweepInv, SweepAt
<1>2. UNCHANGED <<held, ufam, swept, seen>>
  BY DEF Start, Login, PlatformLogin, SignIn, Validate, Logout, ChangePassword, Refresh, SwitchProject, Arrive,
     ResetPassword, Deactivate, StartSweep, RemoveAccess, redis, jwt, hist, loop
<1>3. ASSUME SweepAt(p)' PROVE SweepInv'
  BY <1>1, <1>2, <1>3, InertSweep
<1>4. ASSUME NEW f \in Family, NEW s, SignIn(p, f, s) PROVE SweepInv'
  <2>1. pc'[p] = "issue_session" /\ req'[p].user = Owner[req'[p].fam]
    BY <1>1, <1>4 DEF SignIn, LocalOK, Call
  <2>2. SweepAt(p)'
    BY <1>1, <1>2, <2>1 DEF SweepAt, Window, Revokes, InFamily, Marked, Early
  <2> QED BY <1>3, <2>2
<1>5. ASSUME NEW o, NEW k \in Pair, NEW t, NEW to \in {"acc_session", "ref_family"}, Arrive(p, o, k, t, to)
      PROVE  SweepInv'
  <2>1. pc'[p] = to
    BY <1>1, <1>5 DEF Arrive, LocalOK
  <2> QED BY <1>1, <1>2, <1>3, <2>1, NoSweep DEF InAccess, InRefresh
<1>6. ASSUME NEW o, NEW u \in User, StartSweep(p, o, u) PROVE SweepInv'
  <2>1. pc'[p] = "all_sessions" /\ cover'[p] = Delivered(u) /\ req'[p].user = u
    BY <1>1, <1>6 DEF StartSweep, LocalOK, Call
  <2>2. cover'[p] \subseteq Delivered(req[p].user)'
    BY <1>2, <2>1, SameDelivered DEF Delivered
  <2> QED BY <1>1, <1>2, <1>3, <2>1, <2>2, AtAll
<1>7. ASSUME NEW u, NEW s, RemoveAccess(p, u, s) PROVE SweepInv'
  <2>1. pc'[p] = "prj_sessions"
    BY <1>1, <1>7 DEF RemoveAccess, LocalOK
  <2> QED BY <1>1, <1>2, <1>3, <2>1, NoSweep
<1> QED BY <1>4, <1>5, <1>6, <1>7 DEF Start, Login, PlatformLogin, Validate, Logout, ChangePassword, Refresh,
       SwitchProject, ResetPassword, Deactivate

\* Time and the database end families and never begin one.
LEMMA EnvironmentSweep == ASSUME IInv, SweepInv, Environment, Done \subseteq Done' PROVE SweepInv'
<1>1. UNCHANGED <<pc, local>>
  BY EnvironmentApart
<1>2. UNCHANGED <<held, ufam, swept>>
  BY DEF Environment, SessionExpires, TokenExpires, GraceEnds, FamilyExpires, Grant, redis, jwt, hist
<1>3. \A q \in Proc : SweepAt(q)'
  BY <1>1, <1>2, SameDelivered, OtherSweep DEF SweepInv, local, ctx, rev, loop
<1>4. Listed'
  BY <1>2, SameDelivered DEF SweepInv, Listed
<1> QED BY <1>2, <1>3, <1>4 DEF SweepInv

LEMMA SweepInit == Init => SweepInv
<1> SUFFICES ASSUME Init PROVE SweepInv
  OBVIOUS
<1>1. held = {} /\ swept = {} /\ \A p \in Proc : pc[p] = "idle" /\ seen[p] = {}
  BY DEF Init
<1>2. \A u : Delivered(u) = {}
  BY <1>1 DEF Delivered
<1>3. \A p \in Proc : SweepAt(p)
  BY <1>1 DEF SweepAt, Window, Revokes, InFamily, Marked, Early
<1> QED BY <1>1, <1>2, <1>3 DEF SweepInv, Listed

-----------------------------------------------------------------------------
(* Sessions: a revocation finds every session its family still has. *)

\* Record r names a pair of family f.
Named(r, f) == r.status # "missing" /\ r.cur \in 1 .. next[f]

\* Where a handler that looks for the sessions of a family finds them.
ClearAt(p) ==
    /\ pc[p] \in InAccess \cup InRefresh => req[p].user = Owner[req[p].fam]
    /\ pc[p] \in InAccess \cup InRefresh \cup {"rotated"} => <<req[p].fam, 1>> \in held
    /\ pc[p] = "issue_families_index" => req[p].gen = 1
    /\ pc[p] \in {"rev_mark"} \cup Marked => Named(copy[p], item[p])
    /\ pc[p] = "rev_sessions" => \A n \in Gen : session[<<item[p], n>>] # None => <<item[p], n>> \in keys[p]

\* A family has at most the session of its last pair.
LastLives == \A f \in Family, n \in Gen : session[<<f, n>>] # None => n = next[f]

\* That session is in the index of the user, if a rotation stored it.
Indexed == \A f \in Family, n \in Gen : session[<<f, n>>] # None => n = 1 \/ <<f, n>> \in usess[Owner[f]]

\* A family that has rotated was delivered: the first token was presented.
Given == /\ \A f \in Family : next[f] > 1 => <<f, 1>> \in held
         /\ \A k \in held : <<k[1], 1>> \in held

Recorded == /\ \A f \in Family : family[f].status # "missing" => Named(family[f], f)
            /\ \A f \in ended : family[f].status # "missing"

ClearStore == LastLives /\ Indexed /\ Given /\ Recorded

ClearInv == ClearStore /\ \A p \in Proc : ClearAt(p)

\* The step deletes sessions and stores none.
Drops == \A k \in Pair : session'[k] = session[k] \/ session'[k] = None

\* A family that has ended gets no session any more.
Dead == \A f \in ended, n \in Gen : session'[<<f, n>>] # None => session[<<f, n>>] # None

LEMMA SameDrops == ASSUME session' = session PROVE Drops
BY DEF Drops

LEMMA AccessDrops == ASSUME NEW p \in Proc, AccessSteps(p) PROVE UNCHANGED <<session, usess, family, next, ended, held>>
BY DEF AccessSteps, AccessSession, AccessFamily, IsRevoked, LoadActiveUser, ReconstructContext, Accepted, redis, jwt, hist

LEMMA RevokeDrops == ASSUME StoreOK, NEW p \in Proc, RevokeSteps(p) PROVE Drops /\ UNCHANGED <<usess, next, held>>
<1>1. CASE RevokeSession(p)
  <2>1. PICK k \in keys[p] : session' = [session EXCEPT ![k] = None]
    BY <1>1 DEF RevokeSession
  <2> QED BY <1>1, <2>1 DEF RevokeSession, StoreOK, Drops, jwt, hist
<1>2. CASE ~RevokeSession(p)
  BY <1>2, SameDrops DEF RevokeSteps, RevokeFamily, RevokeMark, RevokeTomb, RevokeAnchor, RevokeIndex, RevokeReturn,
     redis, jwt, hist
<1> QED BY <1>1, <1>2

LEMMA AllDrops ==
  ASSUME StoreOK, NEW p \in Proc, AllSteps(p)
  PROVE  Drops /\ UNCHANGED <<family, next, ended, held>> /\ (AllClear(p) \/ usess' = usess)
<1>1. CASE AllDelete(p)
  <2>1. PICK k \in sess[p] : session' = [session EXCEPT ![k] = None]
    BY <1>1 DEF AllDelete
  <2> QED BY <1>1, <2>1 DEF AllDelete, StoreOK, Drops, jwt, hist
<1>2. CASE ScanDelete(p)
  <2>1. PICK k \in Pair : session' = [session EXCEPT ![k] = None]
    BY <1>2 DEF ScanDelete
  <2> QED BY <1>2, <2>1 DEF ScanDelete, StoreOK, Drops, jwt, hist
<1>3. CASE ~AllDelete(p) /\ ~ScanDelete(p)
  BY <1>3, SameDrops DEF AllSteps, AllSessions, AllFamilies, AllRevoke, AllClear, ScanReturn, redis, jwt, hist
<1> QED BY <1>1, <1>2, <1>3

\* An entry leaves the index together with its session, or after it.
Lets == \A u \in User : \A k \in usess[u] : session'[k] # None => k \in usess'[u]

LEMMA ExceptDrops ==
  ASSUME TypeOK, NEW p \in Proc, ExceptSteps(p), pc[p] # "idle" => req[p].user \in User
  PROVE  Drops /\ Lets /\ UNCHANGED <<family, next, ended, held>>
<1>0. UNCHANGED <<family, next, ended, held>>
  BY DEF ExceptSteps, ExceptSessions, ExceptSession, ExceptDrop, ExceptFamilies, ExceptFamily, ExceptRemove, ExceptReturn,
     redis, jwt, hist
<1>1. CASE ExceptSession(p)
  <2>1. pc[p] = "exc_session"
    BY <1>1 DEF ExceptSession
  <2>2. PICK k \in sess[p] : \/ UNCHANGED <<session, usess>>
                            \/ /\ session' = [session EXCEPT ![k] = None]
                               /\ usess' = [usess EXCEPT ![req[p].user] = @ \ {k}]
    BY <1>1 DEF ExceptSession
  <2>3. k \in Pair /\ req[p].user \in User
    BY <2>1, <2>2 DEF TypeOK, LocalOK
  <2> QED BY <1>0, <2>2, <2>3 DEF Drops, Lets, TypeOK, StoreOK
<1>2. CASE ExceptDrop(p)
  <2>1. pc[p] = "exc_drop" /\ session' = [session EXCEPT ![at[p]] = None]
        /\ usess' = [usess EXCEPT ![req[p].user] = @ \ {at[p]}]
    BY <1>2 DEF ExceptDrop, Goto
  <2>2. req[p].user \in User
    BY <2>1
  <2> QED BY <1>0, <2>1, <2>2 DEF Drops, Lets, TypeOK, StoreOK
<1>3. CASE ~ExceptSession(p) /\ ~ExceptDrop(p)
  <2>1. UNCHANGED <<session, usess>>
    BY <1>3 DEF ExceptSteps, ExceptSessions, ExceptFamilies, ExceptFamily, ExceptRemove, ExceptReturn, redis
  <2> QED BY <1>0, <2>1 DEF Drops, Lets
<1> QED BY <1>1, <1>2, <1>3

LEMMA ProjectDrops ==
  ASSUME TypeOK, NEW p \in Proc, ProjectSteps(p), pc[p] # "idle" => req[p].user \in User
  PROVE  Drops /\ Lets /\ UNCHANGED <<family, next, ended, held>>
<1>0. UNCHANGED <<family, next, ended, held>>
  BY DEF ProjectSteps, ProjectSessions, ProjectSession, ProjectDrop, ProjectReturn, redis, jwt, hist
<1>1. CASE ProjectSession(p)
  <2>1. pc[p] = "prj_session" /\ session' = session
    BY <1>1 DEF ProjectSession
  <2>2. PICK k \in sess[p] :
           \/ usess' = usess
           \/ usess' = [usess EXCEPT ![req[p].user] = IF session[k] = None THEN @ \ {k} ELSE @]
    BY <1>1 DEF ProjectSession
  <2>3. req[p].user \in User
    BY <2>1
  <2> QED BY <1>0, <2>1, <2>2, <2>3 DEF Drops, Lets, TypeOK, StoreOK
<1>2. CASE ProjectDrop(p)
  <2>1. pc[p] = "prj_drop" /\ session' = [session EXCEPT ![at[p]] = None]
        /\ usess' = [usess EXCEPT ![req[p].user] = @ \ {at[p]}]
    BY <1>2 DEF ProjectDrop, Goto
  <2>2. req[p].user \in User
    BY <2>1
  <2> QED BY <1>0, <2>1, <2>2 DEF Drops, Lets, TypeOK, StoreOK
<1>3. CASE ProjectSessions(p) \/ ProjectReturn(p)
  <2>1. UNCHANGED <<session, usess>>
    BY <1>3 DEF ProjectSessions, ProjectReturn, redis
  <2> QED BY <1>0, <2>1 DEF Drops, Lets
<1> QED BY <1>1, <1>2, <1>3 DEF ProjectSteps

LEMMA EnvironmentDrops == ASSUME StoreOK, Environment PROVE Drops /\ UNCHANGED <<usess, next, held>>
<1>1. CASE \E k \in Pair : SessionExpires(k)
  <2>1. PICK k \in Pair : SessionExpires(k)
    BY <1>1
  <2> QED BY <2>1 DEF SessionExpires, StoreOK, Drops, jwt, hist
<1>2. CASE ~\E k \in Pair : SessionExpires(k)
  BY <1>2, SameDrops DEF Environment, TokenExpires, GraceEnds, FamilyExpires, Grant, redis, jwt, hist
<1> QED BY <1>1, <1>2

LEMMA RefreshDrops ==
  ASSUME NEW p \in Proc, RefreshSteps(p), ~RefreshExec(p) PROVE UNCHANGED <<session, usess, family, next, ended>>
BY DEF RefreshSteps, RefreshFamilyRecord, RefreshTokenRecord, IsRevoked, RefreshSession, RefreshAnchor, LoadActiveUser,
   ReconstructContext, RefreshWatch, Rotated, ClassifyFamily, ClassifyToken, ClassifyDecide, redis, hist

LEMMA StartDrops == ASSUME NEW p \in Proc, Start(p) PROVE UNCHANGED <<session, usess, family, ended, held>>
BY DEF Start, Login, PlatformLogin, SignIn, Validate, Logout, ChangePassword, Refresh, SwitchProject, Arrive,
   ResetPassword, Deactivate, StartSweep, RemoveAccess, redis, jwt, hist

LEMMA EndedIsDead == IInv /\ [Next]_vars => Dead
<1> SUFFICES ASSUME IInv, [Next]_vars PROVE Dead
  OBVIOUS
<1>1. StoreOK /\ TypeOK /\ \A p \in Proc : pc[p] # "idle" => req[p].user \in User
  BY DEF IInv, TypeOK, HandlerInv, ControlAt
<1>2. Drops => Dead
  BY <1>1 DEF Drops, Dead, Pair, StoreOK
<1>3. ASSUME NEW p \in Proc, IssueSteps(p) PROVE Dead
  <2>1. CASE IssueSession(p)
    <3>1. pc[p] = "issue_session" /\ session' = [session EXCEPT ![Me(p)] = scope[p]]
      BY <2>1 DEF IssueSession, Goto
    <3>2. req[p].fam \notin ended
      BY <3>1 DEF IInv, Referred, Public, Writing, Early
    <3> QED BY <1>1, <3>1, <3>2 DEF Dead, Me, Pair, StoreOK
  <2>2. CASE ~IssueSession(p)
    BY <1>2, <1>3, <2>2, SameDrops DEF IssueSteps, IssueFamily, IssueToken, IssueAnchor, IssueSessionsIndex, IssueFamiliesIndex
  <2> QED BY <2>1, <2>2
<1>4. ASSUME NEW p \in Proc, RefreshSteps(p) PROVE Dead
  <2>1. CASE RefreshExec(p) /\ p \notin dirty
    <3> DEFINE f == req[p].fam
               c == next[f] + 1
    <3>1. Exchanged(p, f, c)
      BY <2>1 DEF RefreshExec, Exchanged, Goto
    <3>2. f \notin ended /\ session' = [session EXCEPT ![<<f, c>>] = scope[p], ![Me(p)] = None]
      BY <3>1, ExchangeFacts DEF Exchanged
    <3> QED BY <1>1, <3>2 DEF Dead, Me, Pair, StoreOK
  <2>2. CASE RefreshExec(p) /\ p \in dirty
    BY <1>2, <2>2, SameDrops DEF RefreshExec, redis
  <2>3. CASE ~RefreshExec(p)
    BY <1>2, <1>4, <2>3, SameDrops, RefreshDrops
  <2> QED BY <2>1, <2>2, <2>3
<1>5. ASSUME NEW p \in Proc, Start(p) \/ Step(p) PROVE Dead
  BY <1>1, <1>2, <1>3, <1>4, <1>5, StartDrops, AccessDrops, SameDrops, RevokeDrops, AllDrops, ExceptDrops, ProjectDrops DEF Step
<1>6. ASSUME NEW p \in Proc, Crash(p) PROVE Dead
  BY <1>2, <1>6, SameDrops DEF Crash, redis
<1>7. CASE Environment
  BY <1>1, <1>2, <1>7, EnvironmentDrops
<1>8. CASE UNCHANGED vars
  BY <1>2, <1>8, SameDrops DEF vars, redis
<1> QED BY <1>5, <1>6, <1>7, <1>8 DEF Next

\* What a sweep is done with it stays done with.
LEMMA DoneStays == ASSUME Dead, ended \subseteq ended' PROVE Done \subseteq Done'
BY DEF Done, Dead, Bare

LEMMA EndedGrows == IInv /\ [Next]_vars => ended \subseteq ended'
<1> SUFFICES ASSUME IInv, [Next]_vars PROVE ended \subseteq ended'
  OBVIOUS
<1>1. TypeOK /\ StoreOK /\ \A p \in Proc : pc[p] # "idle" => req[p].user \in User
  BY DEF IInv, TypeOK, HandlerInv, ControlAt
<1>2. ASSUME NEW p \in Proc, IssueSteps(p) PROVE ended' = ended
  BY <1>2 DEF IssueSteps, IssueSession, IssueFamily, IssueToken, IssueAnchor, IssueSessionsIndex, IssueFamiliesIndex, hist
<1>3. ASSUME NEW p \in Proc, RefreshSteps(p) PROVE ended' = ended
  <2>1. CASE RefreshExec(p)
    BY <2>1 DEF RefreshExec, hist
  <2> QED BY <1>3, <2>1, RefreshDrops
<1>4. ASSUME NEW p \in Proc, RevokeSteps(p) PROVE ended \subseteq ended'
  BY <1>4 DEF RevokeSteps, RevokeFamily, RevokeMark, RevokeTomb, RevokeAnchor, RevokeIndex, RevokeSession, RevokeReturn, hist
<1>5. ASSUME NEW p \in Proc, Start(p) \/ Step(p) PROVE ended \subseteq ended'
  BY <1>1, <1>2, <1>3, <1>4, <1>5, StartDrops, AccessDrops, AllDrops, ExceptDrops, ProjectDrops DEF Step
<1>6. ASSUME NEW p \in Proc, Crash(p) PROVE ended' = ended
  BY <1>6 DEF Crash, hist
<1>7. CASE Environment
  BY <1>7 DEF Environment, SessionExpires, TokenExpires, GraceEnds, FamilyExpires, Grant, hist
<1>8. CASE UNCHANGED vars
  BY <1>8 DEF vars, hist
<1> QED BY <1>5, <1>6, <1>7, <1>8 DEF Next

-----------------------------------------------------------------------------
(* Frames. *)

LEMMA OtherClear ==
  ASSUME IInv, IInv', NEW q \in Proc, AgeAt(q), ClearAt(q), Dead, held \subseteq held',
         \A f \in Family : next[f] <= next'[f],
         pc'[q] = pc[q], req'[q] = req[q], copy'[q] = copy[q], item'[q] = item[q], keys'[q] = keys[q]
  PROVE  ClearAt(q)'
<1> DEFINE f == item[q]
<1>1. pc[q] \in {"rev_mark"} \cup Marked => f \in Family
  BY DEF IInv, HandlerInv, ControlAt, InRevoke, Marked
<1>2. f \in Family => next[f] \in Nat /\ next'[f] \in Nat /\ next[f] <= next'[f]
  BY GenAssumption DEF IInv, TypeOK, StoreOK
<1>3. copy[q].cur \in Nat
  BY GenAssumption DEF IInv, TypeOK, LocalOK, FamilyRecord
<1>4. pc[q] \in {"rev_mark"} \cup Marked => Named(copy[q], f)
  BY DEF ClearAt
<1>5. pc[q] \in {"rev_mark"} \cup Marked => Named(copy[q], f)'
  BY <1>1, <1>2, <1>3, <1>4 DEF Named
<1>6. pc[q] = "rev_sessions" => f \in ended /\ \A n \in Gen : session[<<f, n>>] # None => <<f, n>> \in keys[q]
  BY DEF ClearAt, AgeAt, Marked
<1>7. pc[q] = "rev_sessions" => \A n \in Gen : session'[<<f, n>>] # None => <<f, n>> \in keys[q]
  BY <1>6 DEF Dead
<1>8. Named(copy[q], item[q])' <=> Named(copy[q], f)'
  OBVIOUS
<1>9. /\ pc[q] \in InAccess \cup InRefresh => req[q].user = Owner[req[q].fam]
      /\ pc[q] \in InAccess \cup InRefresh \cup {"rotated"} => <<req[q].fam, 1>> \in held
      /\ pc[q] = "issue_families_index" => req[q].gen = 1
  BY DEF ClearAt
<1> QED BY <1>5, <1>7, <1>8, <1>9 DEF ClearAt

LEMMA ClearFrame ==
  ASSUME IInv, IInv', AgeInv, ClearInv, Dead, NEW p \in Proc, Apart(p), held \subseteq held',
         \A f \in Family : next[f] <= next'[f], ClearAt(p)', ClearStore'
  PROVE  ClearInv'
BY OtherClear DEF ClearInv, AgeInv, Apart

\* Deleting sessions, with or before their index entries, harms none of it.
LEMMA StoreClear ==
  ASSUME StoreOK, ClearStore, Drops, Lets, UNCHANGED <<family, next, ended, held>> PROVE ClearStore'
<1>1. \A f \in Family, n \in Gen : session'[<<f, n>>] # None => session[<<f, n>>] # None
  BY DEF Drops, Pair
<1>2. LastLives'
  BY <1>1 DEF ClearStore, LastLives
<1>3. Indexed'
  BY <1>1, OwnerAssumption DEF ClearStore, Indexed, Lets
<1>4. Given' /\ Recorded'
  BY DEF ClearStore, Given, Recorded, Named
<1> QED BY <1>2, <1>3, <1>4 DEF ClearStore

LEMMA ShrinkClear ==
  ASSUME IInv, IInv', AgeInv, ClearInv, Dead, NEW p \in Proc, Apart(p),
         Drops, Lets, UNCHANGED <<family, next, ended, held>>, ClearAt(p)'
  PROVE  ClearInv'
<1>1. ClearStore'
  BY StoreClear DEF ClearInv, IInv, TypeOK
<1>2. \A f \in Family : next[f] <= next'[f]
  BY GenAssumption DEF IInv, TypeOK, StoreOK
<1> QED BY <1>1, <1>2, ClearFrame

LEMMA InertClear ==
  ASSUME IInv, IInv', AgeInv, ClearInv, Dead, NEW p \in Proc, Apart(p),
         UNCHANGED <<session, usess, family, next, ended, held>>, ClearAt(p)'
  PROVE  ClearInv'
BY SameDrops, ShrinkClear DEF Lets

\* A label nothing is said of.
LEMMA ElsewhereClear ==
  ASSUME NEW p \in Proc,
         pc'[p] \notin InAccess \cup InRefresh \cup Marked \cup {"rotated", "issue_families_index", "rev_mark"}
  PROVE  ClearAt(p)'
BY DEF ClearAt, Marked

LEMMA FinishClear == ASSUME LocalOK, NEW p \in Proc, Finish(p) PROVE ClearAt(p)'
<1>1. pc'[p] = "idle"
  BY DEF LocalOK, Finish
<1> QED BY <1>1, ElsewhereClear DEF InAccess, InRefresh, Marked

LEMMA RevokeOwnClear == ASSUME LocalOK, NEW p \in Proc, NEW s, RevokeOwn(p, s) PROVE ClearAt(p)'
<1>1. pc'[p] = "rev_family"
  BY DEF LocalOK, RevokeOwn, CallRevoke
<1> QED BY <1>1, ElsewhereClear DEF InAccess, InRefresh, Marked

\* A request goes on to its next check.
LEMMA ProceedClear ==
  ASSUME ClearInv, NEW p \in Proc, pc[p] \in InAccess \cup InRefresh, req'[p] = req[p], held' = held,
         pc'[p] \in InAccess \cup InRefresh
  PROVE  ClearAt(p)'
BY DEF ClearInv, ClearAt, InAccess, InRefresh, Marked

-----------------------------------------------------------------------------
(* The steps, by the function they are in. *)

LEMMA AccessClear == ASSUME IInv, IInv', AgeInv, ClearInv, Dead, NEW p \in Proc, AccessSteps(p) PROVE ClearInv'
<1>1. LocalOK /\ Apart(p) /\ UNCHANGED <<session, usess, family, next, ended, held>>
  BY AccessApart, AccessDrops DEF IInv, TypeOK
<1>2. SUFFICES ClearAt(p)'
  BY <1>1, InertClear
<1>3. pc[p] \in InAccess
  BY DEF AccessSteps, AccessSession, AccessFamily, IsRevoked, LoadActiveUser, ReconstructContext, Accepted, InAccess
<1>4. ASSUME Finish(p) \/ RevokeOwn(p, "revoked") PROVE ClearAt(p)'
  BY <1>1, <1>4, FinishClear, RevokeOwnClear
<1>5. ASSUME NEW to \in InAccess \cup InRefresh, pc'[p] = to, req' = req PROVE ClearAt(p)'
  BY <1>1, <1>3, <1>5, ProceedClear
<1>6. ASSUME NEW to \in InAccess \cup InRefresh, Proceed(p, to) PROVE ClearAt(p)'
  BY <1>1, <1>5, <1>6 DEF Proceed, LocalOK, local
<1>7. ASSUME AccessSession(p) PROVE ClearAt(p)'
  <2>1. Finish(p) \/ (pc'[p] = "acc_family" /\ req' = req)
    BY <1>1, <1>7 DEF AccessSession, LocalOK
  <2> QED BY <1>4, <1>5, <2>1 DEF InAccess
<1>8. ASSUME Accepted(p), req[p].op = "password_change" PROVE ClearAt(p)'
  <2>1. pc'[p] = "exc_sessions"
    BY <1>1, <1>8 DEF Accepted, LocalOK
  <2> QED BY <2>1, ElsewhereClear DEF InAccess, InRefresh, Marked
<1> QED BY <1>4, <1>6, <1>7, <1>8 DEF AccessSteps, AccessFamily, IsRevoked, LoadActiveUser, ReconstructContext,
      Accepted, InAccess, InRefresh

\* EXEC moves the one session of the family from the old pair to the new.
LEMMA ExecClear ==
  ASSUME IInv, IInv', AgeInv, ClearInv, Dead, NEW p \in Proc, RefreshExec(p), p \notin dirty PROVE ClearInv'
<1> DEFINE f == req[p].fam
           n == req[p].gen
           c == next[f] + 1
<1>1. Exchanged(p, f, c) /\ LocalOK /\ StoreOK
  BY DEF RefreshExec, Exchanged, Goto, IInv, TypeOK
<1>2. /\ f \in Family /\ n \in Gen /\ c \in Gen /\ c = n + 1 /\ next[f] = n /\ f \notin ended
      /\ Me(p) = <<f, n>> /\ copy[p].status = "active"
  BY <1>1, ExchangeFacts
<1>3. /\ pc[p] = "ref_exec" /\ pc'[p] = "rotated" /\ held' = held /\ ended' = ended /\ req' = req
      /\ next' = [next EXCEPT ![f] = c]
      /\ session' = [session EXCEPT ![<<f, c>>] = scope[p], ![Me(p)] = None]
      /\ usess' = [usess EXCEPT ![req[p].user] = (@ \ {Me(p)}) \cup {<<f, c>>}]
      /\ family' = [family EXCEPT ![f] = [copy[p] EXCEPT !.cur = c, !.scope = scope[p]]]
  BY <1>1 DEF Exchanged, LocalOK
<1>4. req[p].user = Owner[f] /\ <<f, 1>> \in held /\ Owner[f] \in User
  BY <1>2, <1>3, OwnerAssumption DEF ClearInv, ClearAt, InRefresh
<1>5. n \in Nat /\ n < c /\ c > 1 /\ \A g \in Family : next[g] \in Nat
  BY <1>1, <1>2, GenAssumption DEF Gen, StoreOK
<1> HIDE DEF f, n, c
<1>6. \A g \in Family : next'[g] = (IF g = f THEN c ELSE next[g])
  BY <1>1, <1>3 DEF StoreOK
<1>7. \A g \in Family : next[g] <= next'[g]
  BY <1>2, <1>5, <1>6
<1>8. ASSUME NEW g \in Family, NEW m \in Gen, session'[<<g, m>>] # None
      PROVE  (g = f /\ m = c) \/ (g # f /\ session[<<g, m>>] # None)
  <2>1. <<g, m>> \in Pair /\ <<f, c>> \in Pair /\ <<f, n>> \in Pair
    BY <1>2 DEF Pair
  <2>2. <<g, m>> # <<f, n>>
    BY <1>1, <1>2, <1>3, <1>8, <2>1 DEF StoreOK
  <2>3. <<g, m>> = <<f, c>> \/ session[<<g, m>>] # None
    BY <1>1, <1>2, <1>3, <1>8, <2>1, <2>2 DEF StoreOK
  <2>4. g = f /\ session[<<g, m>>] # None => m = n
    BY <1>2 DEF ClearInv, ClearStore, LastLives
  <2> QED BY <2>2, <2>3, <2>4
<1>9. LastLives'
  BY <1>6, <1>8 DEF ClearInv, ClearStore, LastLives
<1>10. Indexed'
  <2> SUFFICES ASSUME NEW g \in Family, NEW m \in Gen, session'[<<g, m>>] # None, m # 1
               PROVE  <<g, m>> \in usess'[Owner[g]]
    BY DEF Indexed
  <2>1. CASE g = f /\ m = c
    BY <1>1, <1>3, <1>4, <2>1 DEF StoreOK
  <2>2. CASE g # f /\ session[<<g, m>>] # None
    <3>1. <<g, m>> \in usess[Owner[g]] /\ Owner[g] \in User
      BY <2>2, OwnerAssumption DEF ClearInv, ClearStore, Indexed
    <3> QED BY <1>1, <1>2, <1>3, <1>4, <2>2, <3>1 DEF StoreOK
  <2> QED BY <1>8, <2>1, <2>2
<1>11. Given'
  BY <1>3, <1>4, <1>6 DEF ClearInv, ClearStore, Given
<1>12. Recorded'
  <2>1. family'[f].status = "active" /\ family'[f].cur = c /\ \A g \in Family : g # f => family'[g] = family[g]
    BY <1>1, <1>2, <1>3 DEF StoreOK, LocalOK, FamilyRecord
  <2>2. family'[f].cur \in 1 .. next'[f]
    BY <1>2, <1>5, <1>6, <2>1
  <2>3. \A g \in Family : g # f /\ family'[g].status # "missing" => family'[g].cur \in 1 .. next'[g]
    BY <1>6, <2>1 DEF ClearInv, ClearStore, Recorded, Named
  <2>4. \A g \in ended' : family'[g].status # "missing"
    BY <1>1, <1>2, <1>3, <2>1 DEF ClearInv, ClearStore, Recorded, StoreOK
  <2>5. \A g \in Family : family'[g].status # "missing" => Named(family[g], g)'
    BY <2>2, <2>3 DEF Named
  <2> QED BY <2>4, <2>5 DEF Recorded
<1>13. ClearAt(p)'
  <2>1. <<req'[p].fam, 1>> \in held'
    BY <1>3, <1>4 DEF f
  <2> QED BY <1>3, <2>1 DEF ClearAt, InAccess, InRefresh, Marked
<1>14. Apart(p)
  BY <1>1, RefreshApart DEF RefreshSteps
<1> QED BY <1>3, <1>7, <1>9, <1>10, <1>11, <1>12, <1>13, <1>14, ClearFrame DEF ClearStore

LEMMA RefreshClear == ASSUME IInv, IInv', AgeInv, ClearInv, Dead, NEW p \in Proc, RefreshSteps(p) PROVE ClearInv'
<1>1. LocalOK /\ StoreOK /\ Apart(p)
  BY RefreshApart DEF IInv, TypeOK
<1>2. CASE RefreshExec(p) /\ p \notin dirty
  BY <1>2, ExecClear
<1>3. CASE Rotated(p)
  <2>1. /\ pc[p] = "rotated" /\ held' = held \cup {<<req[p].fam, child[p]>>} /\ ClearAt(p)'
        /\ UNCHANGED <<session, usess, family, next, ended>>
    BY <1>1, <1>3, FinishClear DEF Rotated, redis, hist
  <2>2. <<req[p].fam, 1>> \in held
    BY <2>1 DEF ClearInv, ClearAt
  <2>3. Given'
    BY <2>1, <2>2 DEF ClearInv, ClearStore, Given
  <2>4. ClearStore'
    BY <2>1, <2>3 DEF ClearInv, ClearStore, LastLives, Indexed, Recorded, Named
  <2>5. \A f \in Family : next[f] <= next'[f]
    BY <1>1, <2>1, GenAssumption DEF StoreOK
  <2> QED BY <1>1, <2>1, <2>4, <2>5, ClearFrame
<1>4. CASE ~Rotated(p) /\ ~(RefreshExec(p) /\ p \notin dirty)
  <2>1. UNCHANGED <<session, usess, family, next, ended>>
    BY <1>4, RefreshDrops DEF RefreshExec, redis, hist
  <2>2. held' = held
    BY <1>4 DEF RefreshSteps, RefreshFamilyRecord, RefreshTokenRecord, IsRevoked, RefreshSession, RefreshAnchor,
       LoadActiveUser, ReconstructContext, RefreshWatch, RefreshExec, ClassifyFamily, ClassifyToken, ClassifyDecide, jwt
  <2>3. pc[p] \in InRefresh
    BY <1>4 DEF RefreshSteps, RefreshFamilyRecord, RefreshTokenRecord, IsRevoked, RefreshSession, RefreshAnchor,
       LoadActiveUser, ReconstructContext, RefreshWatch, RefreshExec, ClassifyFamily, ClassifyToken, ClassifyDecide, Goto, InRefresh
  <2>4. SUFFICES ClearAt(p)'
    BY <1>1, <2>1, <2>2, InertClear
  <2>5. ASSUME NEW s, Finish(p) \/ RevokeOwn(p, s) PROVE ClearAt(p)'
    BY <1>1, <2>5, FinishClear, RevokeOwnClear
  <2>6. ASSUME NEW to \in InRefresh, pc'[p] = to, req' = req PROVE ClearAt(p)'
    BY <2>2, <2>3, <2>6, ProceedClear
  <2>7. ASSUME NEW to \in InRefresh, Proceed(p, to) PROVE ClearAt(p)'
    BY <1>1, <2>6, <2>7 DEF Proceed, LocalOK, local
  <2>8. ASSUME RefreshFamilyRecord(p) \/ ClassifyFamily(p) \/ RefreshWatch(p) \/ (RefreshExec(p) /\ p \in dirty)
        PROVE  ClearAt(p)'
    <3>1. pc'[p] \in InRefresh /\ req' = req
      BY <1>1, <2>8 DEF RefreshFamilyRecord, ClassifyFamily, RefreshWatch, RefreshExec, Goto, LocalOK, local, InRefresh
    <3> QED BY <2>6, <3>1
  <2>9. ASSUME RefreshSession(p) \/ RefreshAnchor(p) \/ ClassifyToken(p) PROVE ClearAt(p)'
    <3>1. \/ Finish(p) \/ RevokeOwn(p, "revoked") \/ Proceed(p, "ref_anchor")
          \/ pc'[p] \in {"ref_user", "cls_revoked"} /\ req' = req
      BY <1>1, <2>9 DEF RefreshSession, RefreshAnchor, ClassifyToken, LocalOK
    <3> QED BY <2>5, <2>6, <2>7, <3>1 DEF InRefresh
  <2>10. ASSUME NEW a, NEW b \in InRefresh,
                IsRevoked(p, a, b) \/ LoadActiveUser(p, a, b) \/ ReconstructContext(p, a, b) PROVE ClearAt(p)'
    BY <2>5, <2>7, <2>10 DEF IsRevoked, LoadActiveUser, ReconstructContext
  <2>11. ASSUME ClassifyDecide(p) \/ RefreshTokenRecord(p) PROVE ClearAt(p)'
    BY <2>5, <2>7, <2>11 DEF ClassifyDecide, RefreshTokenRecord, InRefresh
  <2> QED BY <1>4, <2>8, <2>9, <2>10, <2>11 DEF RefreshSteps, InRefresh
<1> QED BY <1>2, <1>3, <1>4

LEMMA IssueClear == ASSUME IInv, IInv', AgeInv, ClearInv, Dead, NEW p \in Proc, IssueSteps(p) PROVE ClearInv'
<1> DEFINE f == req[p].fam
<1>1. LocalOK /\ StoreOK /\ Apart(p) /\ \A g \in Family : next[g] \in Nat
  BY IssueApart, GenAssumption DEF IInv, TypeOK, StoreOK
<1>2. ASSUME pc[p] \in Early
      PROVE  f \in Family /\ next[f] = 1 /\ req[p].gen = 1 /\ f \notin ended /\ Me(p) = <<f, 1>> /\ 1 \in Gen
             /\ req[p].user \in User
  <2>1. f \in Family /\ req[p].gen \in Gen /\ Writing(p, f) /\ req[p].user \in User
    BY <1>2 DEF IInv, HandlerInv, ControlAt, Writing, Early
  <2>2. next[f] = 1 /\ req[p].gen = 1
    BY <2>1 DEF IInv, OneWriter
  <2>3. f \notin ended
    BY <2>1 DEF IInv, Referred, Public
  <2> QED BY <2>1, <2>2, <2>3 DEF Me
<1>3. CASE IssueSession(p) \/ IssueFamily(p) \/ IssueToken(p) \/ IssueAnchor(p) \/ IssueSessionsIndex(p)
  <2>1. /\ pc[p] \in Early /\ UNCHANGED <<next, held, ended, req>>
        /\ pc'[p] \in Early \cup {"issue_families_index"}
    BY <1>1, <1>3 DEF IssueSession, IssueFamily, IssueToken, IssueAnchor, IssueSessionsIndex, Goto, LocalOK, Early,
       local, jwt, hist
  <2>2. ClearAt(p)'
    BY <1>2, <2>1 DEF ClearAt, Early, InAccess, InRefresh, Marked
  <2>3. \A g \in Family : next[g] <= next'[g]
    BY <1>1, <2>1
  <2>4. Given'
    BY <2>1 DEF ClearInv, ClearStore, Given
  <2>5. CASE IssueSession(p)
    <3>1. session' = [session EXCEPT ![<<f, 1>>] = scope[p]] /\ UNCHANGED <<usess, family>>
      BY <1>2, <2>1, <2>5 DEF IssueSession
    <3>2. \A g \in Family, m \in Gen : session'[<<g, m>>] # None => session[<<g, m>>] # None \/ (g = f /\ m = 1)
      BY <1>1, <3>1 DEF StoreOK, Pair
    <3> HIDE DEF f
    <3>3. ClearStore'
      BY <1>2, <2>1, <2>4, <3>1, <3>2 DEF ClearInv, ClearStore, LastLives, Indexed, Recorded, Named
    <3> QED BY <1>1, <2>1, <2>2, <2>3, <3>3, ClearFrame
  <2>6. CASE IssueFamily(p)
    <3>1. UNCHANGED <<session, usess>>
          /\ family' = [family EXCEPT ![f] = [status |-> "active", cur |-> 1, scope |-> scope[p]]]
      BY <2>6 DEF IssueFamily
    <3> HIDE DEF f
    <3>2. \A g \in Family : family'[g] = family[g] \/ (g = f /\ family'[g].status = "active" /\ family'[g].cur = 1)
      BY <1>1, <3>1 DEF StoreOK
    <3>3. Recorded'
      BY <1>2, <2>1, <3>2 DEF ClearInv, ClearStore, Recorded, Named, IInv, TypeOK, StoreOK
    <3>4. ClearStore'
      BY <2>1, <2>4, <3>1, <3>3 DEF ClearInv, ClearStore, LastLives, Indexed
    <3> QED BY <1>1, <2>1, <2>2, <2>3, <3>4, ClearFrame
  <2>7. CASE IssueToken(p) \/ IssueAnchor(p)
    <3>1. UNCHANGED <<session, usess, family>>
      BY <2>7 DEF IssueToken, IssueAnchor
    <3> QED BY <1>1, <2>1, <2>2, <3>1, InertClear
  <2>8. CASE IssueSessionsIndex(p)
    <3>1. UNCHANGED <<session, family>> /\ usess' = [usess EXCEPT ![req[p].user] = @ \cup {Me(p)}]
      BY <2>8 DEF IssueSessionsIndex
    <3>2. Lets
      BY <1>1, <3>1 DEF Lets, StoreOK
    <3> QED BY <1>1, <2>1, <2>2, <3>1, <3>2, SameDrops, ShrinkClear
  <2> QED BY <1>3, <2>5, <2>6, <2>7, <2>8
<1>4. CASE IssueFamiliesIndex(p)
  <2>1. /\ pc[p] = "issue_families_index" /\ held' = held \cup {Me(p)} /\ ClearAt(p)'
        /\ UNCHANGED <<session, usess, family, next, ended>>
    BY <1>1, <1>4, FinishClear DEF IssueFamiliesIndex, hist
  <2>2. Me(p) = <<f, 1>>
    BY <2>1 DEF ClearInv, ClearAt, Me
  <2>3. Given'
    BY <2>1, <2>2 DEF ClearInv, ClearStore, Given
  <2>4. ClearStore'
    BY <2>1, <2>3 DEF ClearInv, ClearStore, LastLives, Indexed, Recorded, Named
  <2> QED BY <1>1, <2>1, <2>4, ClearFrame
<1> QED BY <1>3, <1>4 DEF IssueSteps

\* A revocation copies a record that names a pair, marks it, and reads the index.
LEMMA RevokeClear == ASSUME IInv, IInv', AgeInv, ClearInv, Dead, NEW p \in Proc, RevokeSteps(p) PROVE ClearInv'
<1> DEFINE f == item[p]
<1>1. LocalOK /\ StoreOK /\ Apart(p) /\ Drops /\ UNCHANGED <<usess, next, held>> /\ \A g \in Family : next[g] <= next'[g]
  BY RevokeApart, RevokeDrops, GenAssumption DEF IInv, TypeOK, StoreOK
<1>2. f \in Family /\ Public(f)
  <2>1. pc[p] \in InRevoke
    BY DEF RevokeSteps, RevokeFamily, RevokeMark, RevokeTomb, RevokeAnchor, RevokeIndex, RevokeSession, RevokeReturn,
       Goto, InRevoke
  <2> QED BY <2>1 DEF IInv, HandlerInv, ControlAt, RefersAt
<1>3. UNCHANGED <<family, ended>> => ClearStore'
  BY <1>1, StoreClear DEF ClearInv, Lets
<1>4. CASE RevokeFamily(p)
  <2>1. /\ pc'[p] = "rev_mark" /\ copy'[p] = family[f] /\ item'[p] = f /\ UNCHANGED <<family, ended>>
    BY <1>1, <1>4 DEF RevokeFamily, Goto, LocalOK, redis, rev, hist
  <2>2. Named(family[f], f)
    BY <1>2 DEF ClearInv, ClearStore, Recorded, Public
  <2> HIDE DEF f
  <2>3. Named(copy[p], item[p])'
    BY <1>1, <2>1, <2>2 DEF Named
  <2>4. ClearAt(p)'
    BY <2>1, <2>3 DEF ClearAt, InAccess, InRefresh
  <2> QED BY <1>1, <1>3, <2>1, <2>4, ClearFrame
<1>5. CASE RevokeMark(p)
  <2>1. /\ pc[p] = "rev_mark" /\ pc'[p] = "rev_tomb" /\ UNCHANGED <<session, copy, item>> /\ ended' = ended \cup {f}
        /\ family' = [family EXCEPT ![f] = [copy[p] EXCEPT !.status = mark[p]]]
    BY <1>1, <1>5 DEF RevokeMark, Goto, LocalOK, local, ctx, rev
  <2>2. Named(copy[p], f)
    BY <2>1 DEF ClearInv, ClearAt
  <2> HIDE DEF f
  <2>3. family'[f].status # "missing" /\ family'[f].cur = copy[p].cur
    <3>1. copy[p] \in FamilyRecord /\ mark[p] \in {"revoked", "reused"} /\ DOMAIN family = Family
      BY <1>1 DEF StoreOK, LocalOK
    <3>2. family'[f] = [copy[p] EXCEPT !.status = mark[p]]
      BY <1>2, <2>1, <3>1
    <3> QED BY <3>1, <3>2 DEF FamilyRecord
  <2>4. \A g \in Family : g # f => family'[g] = family[g]
    BY <1>1, <2>1 DEF StoreOK
  <2>5. \A g \in Family : family'[g].status # "missing" => Named(family[g], g)'
    BY <1>1, <2>2, <2>3, <2>4 DEF ClearInv, ClearStore, Recorded, Named
  <2>6. \A g \in ended' : family'[g].status # "missing"
    BY <1>1, <2>1, <2>3, <2>4 DEF ClearInv, ClearStore, Recorded, StoreOK
  <2>7. ClearStore'
    BY <1>1, <2>1, <2>5, <2>6 DEF ClearInv, ClearStore, LastLives, Indexed, Given, Recorded
  <2>8. Named(copy[p], item[p])'
    BY <1>1, <2>1, <2>2 DEF Named, f
  <2>9. ClearAt(p)'
    BY <2>1, <2>8 DEF ClearAt, InAccess, InRefresh
  <2> QED BY <1>1, <2>7, <2>9, ClearFrame
<1>6. CASE RevokeTomb(p) \/ RevokeAnchor(p)
  <2>1. /\ pc[p] \in Marked /\ pc'[p] \in {"rev_anchor", "rev_index"} /\ UNCHANGED <<family, ended, copy, item>>
    BY <1>1, <1>6 DEF RevokeTomb, RevokeAnchor, Goto, LocalOK, local, ctx, rev, hist, Marked
  <2>2. Named(copy[p], item[p])'
    BY <1>1, <2>1 DEF ClearInv, ClearAt, Named
  <2>3. ClearAt(p)'
    BY <2>1, <2>2 DEF ClearAt, InAccess, InRefresh
  <2> QED BY <1>1, <1>3, <2>1, <2>3, ClearFrame
<1>7. CASE RevokeIndex(p)
  <2>1. /\ pc[p] = "rev_index" /\ pc'[p] = "rev_sessions" /\ UNCHANGED <<session, family, ended, copy, item>>
        /\ keys'[p] = IF copy[p].status = "missing" THEN {}
                      ELSE {k \in Pair : k[1] = f /\ k[2] = copy[p].cur} \cup {k \in usess[Owner[f]] : k[1] = f}
    BY <1>1, <1>7 DEF RevokeIndex, Goto, LocalOK, redis, ctx, hist
  <2>2. Named(copy[p], f)
    BY <2>1 DEF ClearInv, ClearAt, Marked
  <2> HIDE DEF f
  <2>3. ASSUME NEW n \in Gen, session[<<f, n>>] # None PROVE <<f, n>> \in keys'[p]
    <3>1. n = next[f] /\ (n = 1 \/ <<f, n>> \in usess[Owner[f]])
      BY <1>2, <2>3 DEF ClearInv, ClearStore, LastLives, Indexed
    <3>2. CASE n = 1
      <4>1. copy[p].cur = 1
        BY <2>2, <3>1, <3>2 DEF Named
      <4> QED BY <1>2, <2>1, <2>2, <3>2, <4>1 DEF Named, Pair
    <3>3. CASE n # 1
      BY <2>1, <2>2, <3>1, <3>3 DEF Named
    <3> QED BY <3>2, <3>3
  <2>4. Named(copy[p], item[p])'
    BY <1>1, <2>1, <2>2 DEF Named, f
  <2>5. \A n \in Gen : session'[<<item'[p], n>>] # None => <<item'[p], n>> \in keys'[p]
    BY <2>1, <2>3 DEF f
  <2>6. ClearAt(p)'
    BY <2>1, <2>4, <2>5 DEF ClearAt, InAccess, InRefresh
  <2> QED BY <1>1, <1>3, <2>1, <2>6, ClearFrame
<1>8. CASE RevokeSession(p)
  <2>1. /\ pc[p] = "rev_sessions" /\ pc'[p] = "rev_sessions" /\ UNCHANGED <<family, ended, copy, item>>
    BY <1>8 DEF RevokeSession, ctx, hist
  <2>2. PICK k \in keys[p] : session' = [session EXCEPT ![k] = None] /\ keys' = [keys EXCEPT ![p] = @ \ {k}]
    BY <1>8 DEF RevokeSession
  <2>3. \A n \in Gen : session[<<f, n>>] # None => <<f, n>> \in keys[p]
    BY <2>1 DEF ClearInv, ClearAt
  <2>4. k \in Pair /\ \A n \in Gen : <<f, n>> \in Pair
    BY <1>1, <1>2 DEF LocalOK, Pair
  <2>5. \A n \in Gen : session'[<<item'[p], n>>] # None => <<item'[p], n>> \in keys'[p]
    BY <1>1, <2>1, <2>2, <2>3, <2>4 DEF LocalOK, StoreOK
  <2>6. Named(copy[p], item[p])'
    BY <1>1, <2>1 DEF ClearInv, ClearAt, Named, Marked
  <2>7. ClearAt(p)'
    BY <2>1, <2>5, <2>6 DEF ClearAt, InAccess, InRefresh
  <2> QED BY <1>1, <1>3, <2>1, <2>7, ClearFrame
<1>9. CASE RevokeReturn(p)
  <2>1. UNCHANGED <<family, ended>>
    BY <1>9 DEF RevokeReturn, redis, hist
  <2>2. CASE Finish(p)
    BY <1>1, <1>3, <2>1, <2>2, FinishClear, ClearFrame
  <2>3. CASE ~Finish(p)
    <3>1. pc'[p] = ret[p] /\ ret[p] \in {"all_revoke", "exc_drop", "exc_remove", "prj_drop"}
      BY <1>1, <1>9, <2>3 DEF RevokeReturn, Proceed, LocalOK
    <3>2. ClearAt(p)'
      BY <3>1, ElsewhereClear DEF InAccess, InRefresh, Marked
    <3> QED BY <1>1, <1>3, <2>1, <3>2, ClearFrame
  <2> QED BY <2>2, <2>3
<1> QED BY <1>4, <1>5, <1>6, <1>7, <1>8, <1>9 DEF RevokeSteps

\* A full sweep deletes the session index when no delivered family has a session.
LEMMA AllDone ==
  ASSUME Lasting, IInv, SweepInv, NEW p \in Proc, AllClear(p) PROVE Delivered(req[p].user) \subseteq {f \in ended : Bare(f)}
<1>1. pc[p] = "all_revoke" /\ fams[p] = {}
  BY DEF AllClear
<1>2. AtHand(p) = {} /\ Window(p)
  BY <1>1 DEF AtHand, InFamily, Marked, Window
<1>3. Delivered(req[p].user) \subseteq Done
  BY <1>1, <1>2 DEF SweepInv, SweepAt
<1> QED BY <1>3 DEF Done

LEMMA AllStepsClear ==
  ASSUME Lasting, IInv, IInv', AgeInv, SweepInv, ClearInv, Dead, NEW p \in Proc, AllSteps(p) PROVE ClearInv'
<1>1. LocalOK /\ StoreOK /\ Apart(p) /\ Drops /\ UNCHANGED <<family, next, ended, held>>
  BY AllApart, AllDrops DEF IInv, TypeOK
<1>2. ClearAt(p)'
  <2>1. Finish(p) \/ pc'[p] \in {"all_sessions", "all_delete", "all_revoke", "rev_family", "scan"}
    BY <1>1 DEF AllSteps, AllSessions, AllDelete, AllFamilies, AllRevoke, AllClear, ScanDelete, ScanReturn, Goto,
       CallRevoke, LocalOK
  <2> QED BY <1>1, <2>1, FinishClear, ElsewhereClear DEF InAccess, InRefresh, Marked
<1>3. CASE usess' = usess
  BY <1>1, <1>2, <1>3, ShrinkClear DEF Lets
<1>4. CASE AllClear(p)
  <2>1. usess' = [usess EXCEPT ![req[p].user] = {}] /\ session' = session
    BY <1>4 DEF AllClear
  <2>2. Delivered(req[p].user) \subseteq {f \in ended : Bare(f)}
    BY <1>4, AllDone
  <2>3. \A u \in User : u # req[p].user => usess'[u] = usess[u]
    BY <1>1, <2>1 DEF StoreOK
  <2>4. Indexed'
    <3> SUFFICES ASSUME NEW f \in Family, NEW n \in Gen, session[<<f, n>>] # None, n # 1
                 PROVE  <<f, n>> \in usess'[Owner[f]]
      BY <2>1 DEF Indexed
    <3>1. n = next[f] /\ <<f, n>> \in usess[Owner[f]] /\ Owner[f] \in User
      BY OwnerAssumption DEF ClearInv, ClearStore, LastLives, Indexed
    <3>2. n > 1
      BY GenAssumption DEF Gen
    <3>3. f \notin Delivered(req[p].user)
      BY <2>2 DEF Bare
    <3>4. Owner[f] # req[p].user
      BY <3>1, <3>2, <3>3 DEF Delivered, ClearInv, ClearStore, Given
    <3> QED BY <2>3, <3>1, <3>4
  <2>5. ClearStore'
    BY <1>1, <2>1, <2>4 DEF ClearInv, ClearStore, LastLives, Given, Recorded, Named
  <2>6. \A f \in Family : next[f] <= next'[f]
    BY <1>1, GenAssumption DEF StoreOK
  <2> QED BY <1>1, <1>2, <2>5, <2>6, ClearFrame
<1> QED BY <1>1, <1>3, <1>4, AllDrops

LEMMA ExceptClear == ASSUME IInv, IInv', AgeInv, ClearInv, Dead, NEW p \in Proc, ExceptSteps(p) PROVE ClearInv'
<1>1. LocalOK /\ StoreOK /\ Apart(p) /\ Drops /\ Lets /\ UNCHANGED <<family, next, ended, held>>
  BY ExceptApart, ExceptDrops DEF IInv, TypeOK, HandlerInv, ControlAt
<1>2. Finish(p) \/ pc'[p] \in {"exc_session", "exc_drop", "exc_family", "rev_family"}
  BY <1>1 DEF ExceptSteps, ExceptSessions, ExceptSession, ExceptDrop, ExceptFamilies, ExceptFamily, ExceptRemove,
     ExceptReturn, Goto, CallRevoke, LocalOK
<1>3. ClearAt(p)'
  BY <1>1, <1>2, FinishClear, ElsewhereClear DEF InAccess, InRefresh, Marked
<1> QED BY <1>1, <1>3, ShrinkClear

LEMMA ProjectClear == ASSUME IInv, IInv', AgeInv, ClearInv, Dead, NEW p \in Proc, ProjectSteps(p) PROVE ClearInv'
<1>1. LocalOK /\ StoreOK /\ Apart(p) /\ Drops /\ Lets /\ UNCHANGED <<family, next, ended, held>>
  BY ProjectApart, ProjectDrops DEF IInv, TypeOK, HandlerInv, ControlAt
<1>2. Finish(p) \/ pc'[p] \in {"prj_session", "rev_family"}
  BY <1>1 DEF ProjectSteps, ProjectSessions, ProjectSession, ProjectDrop, ProjectReturn, Goto, CallRevoke, LocalOK
<1>3. ClearAt(p)'
  BY <1>1, <1>2, FinishClear, ElsewhereClear DEF InAccess, InRefresh, Marked
<1> QED BY <1>1, <1>3, ShrinkClear

LEMMA StartClear == ASSUME IInv, IInv', AgeInv, ClearInv, Dead, NEW p \in Proc, Start(p) PROVE ClearInv'
<1>1. /\ LocalOK /\ StoreOK /\ Apart(p) /\ UNCHANGED <<session, usess, family, ended, held>>
      /\ \A f \in Family : next[f] \in Nat
  BY StartApart, StartDrops, GenAssumption DEF IInv, TypeOK, StoreOK
<1>2. ASSUME NEW f \in Family, NEW s, SignIn(p, f, s) PROVE ClearInv'
  <2>1. next[f] = 0 /\ next' = [next EXCEPT ![f] = 1] /\ pc'[p] = "issue_session"
    BY <1>1, <1>2 DEF SignIn, LocalOK
  <2>2. \A g \in Family : next'[g] = IF g = f THEN 1 ELSE next[g]
    BY <1>1, <2>1 DEF StoreOK
  <2>3. \A n \in Gen : session[<<f, n>>] = None
    BY <2>1 DEF ClearInv, ClearStore, LastLives, Gen
  <2>4. family[f].status = "missing"
    BY <2>1 DEF IInv, StoreInv, Minted
  <2>5. LastLives'
    BY <1>1, <2>2, <2>3 DEF ClearInv, ClearStore, LastLives
  <2>6. Given'
    BY <1>1, <2>2 DEF ClearInv, ClearStore, Given
  <2>7. Recorded'
    BY <1>1, <2>2, <2>4 DEF ClearInv, ClearStore, Recorded, Named
  <2>8. Indexed'
    BY <1>1 DEF ClearInv, ClearStore, Indexed
  <2>9. \A g \in Family : next[g] <= next'[g]
    BY <1>1, <2>1, <2>2
  <2>10. ClearAt(p)'
    BY <2>1, ElsewhereClear DEF InAccess, InRefresh, Marked
  <2> QED BY <1>1, <2>5, <2>6, <2>7, <2>8, <2>9, <2>10, ClearFrame DEF ClearStore
<1>3. ASSUME NEW o, NEW k \in Pair, NEW t, NEW to \in {"acc_session", "ref_family"}, Arrive(p, o, k, t, to)
      PROVE  ClearInv'
  <2>1. pc'[p] = to /\ req'[p].user = Owner[req'[p].fam] /\ req'[p].fam = k[1] /\ k \in held /\ next' = next
    BY <1>1, <1>3 DEF Arrive, LocalOK, Call, hist
  <2>2. <<k[1], 1>> \in held'
    BY <1>1, <2>1 DEF ClearInv, ClearStore, Given
  <2>3. ClearAt(p)'
    BY <2>1, <2>2 DEF ClearAt, InAccess, InRefresh, Marked
  <2> QED BY <1>1, <2>1, <2>3, InertClear
<1>4. ASSUME pc'[p] \in {"all_sessions", "prj_sessions"}, next' = next PROVE ClearInv'
  <2>1. ClearAt(p)'
    BY <1>4, ElsewhereClear DEF InAccess, InRefresh, Marked
  <2> QED BY <1>1, <1>4, <2>1, InertClear
<1>5. ASSUME NEW u, ResetPassword(p, u) \/ Deactivate(p, u) PROVE ClearInv'
  <2>1. pc'[p] = "all_sessions" /\ next' = next
    BY <1>1, <1>5 DEF ResetPassword, Deactivate, StartSweep, LocalOK, hist
  <2> QED BY <1>4, <2>1
<1>6. ASSUME NEW u, NEW s, RemoveAccess(p, u, s) PROVE ClearInv'
  <2>1. pc'[p] = "prj_sessions" /\ next' = next
    BY <1>1, <1>6 DEF RemoveAccess, LocalOK, hist
  <2> QED BY <1>4, <2>1
<1> QED BY <1>2, <1>3, <1>5, <1>6 DEF Start, Login, PlatformLogin, Validate, Logout, ChangePassword, Refresh, SwitchProject

LEMMA EnvironmentClear == ASSUME Lasting, IInv, IInv', AgeInv, ClearInv, Dead, Environment PROVE ClearInv'
<1>1. UNCHANGED <<pc, local>> /\ Drops /\ UNCHANGED <<usess, next, held>> /\ StoreOK
  BY EnvironmentApart, EnvironmentDrops DEF IInv, TypeOK
<1>2. UNCHANGED <<family, ended>>
  BY DEF Lasting, Environment, SessionExpires, TokenExpires, GraceEnds, FamilyExpires, Grant, redis, hist
<1>3. ClearStore'
  BY <1>1, <1>2, StoreClear DEF ClearInv, Lets
<1>4. \A f \in Family : next[f] <= next'[f]
  BY <1>1, GenAssumption DEF StoreOK
<1>5. \A q \in Proc : ClearAt(q)'
  BY <1>1, <1>4, OtherClear DEF AgeInv, ClearInv, local, ctx, rev
<1> QED BY <1>3, <1>5 DEF ClearInv

LEMMA ClearInit == Init => ClearInv
<1> SUFFICES ASSUME Init PROVE ClearInv
  OBVIOUS
<1>1. \A p \in Proc : pc[p] = "idle"
  BY DEF Init
<1>2. \A p \in Proc : ClearAt(p)
  BY <1>1 DEF ClearAt, InAccess, InRefresh, Marked
<1>3. LastLives /\ Indexed /\ Given
  BY DEF Init, LastLives, Indexed, Given, Pair
<1>4. Recorded
  BY DEF Init, Recorded, NoFamily
<1> QED BY <1>2, <1>3, <1>4 DEF ClearInv, ClearStore

LEMMA ClearNext == ASSUME Lasting PROVE IInv /\ AgeInv /\ SweepInv /\ ClearInv /\ [Next]_vars => ClearInv'
<1> SUFFICES ASSUME IInv, AgeInv, SweepInv, ClearInv, [Next]_vars PROVE ClearInv'
  OBVIOUS
<1>1. IInv' /\ Dead
  BY NextInv, EndedIsDead
<1>2. ASSUME NEW p \in Proc, Start(p) \/ Step(p) PROVE ClearInv'
  BY <1>1, <1>2, StartClear, IssueClear, AccessClear, RefreshClear, RevokeClear, AllStepsClear, ExceptClear, ProjectClear DEF Step
<1>3. ASSUME NEW p \in Proc, Crash(p) PROVE ClearInv'
  <2>1. UNCHANGED <<session, usess, family, next, ended, held>> /\ Finish(p) /\ LocalOK
    BY <1>3 DEF Crash, redis, jwt, hist, IInv, TypeOK
  <2> QED BY <1>1, <2>1, FinishClear, FinishApart, InertClear
<1>4. CASE Environment
  BY <1>1, <1>4, EnvironmentClear
<1>5. CASE UNCHANGED vars
  <2>1. ClearStore'
    BY <1>5 DEF vars, redis, jwt, hist, ClearInv, ClearStore, LastLives, Indexed, Given, Recorded, Named
  <2>2. \A q \in Proc : ClearAt(q)'
    BY <1>5 DEF vars, redis, jwt, hist, local, ctx, rev, ClearInv, ClearAt, Named
  <2> QED BY <2>1, <2>2 DEF ClearInv
<1> QED BY <1>2, <1>3, <1>4, <1>5 DEF Next

-----------------------------------------------------------------------------
(* The two results. *)

\* A revocation that returns leaves its family without sessions.
LEMMA ReturnedBare ==
  ASSUME IInv, AgeInv, ClearInv, NEW p \in Proc, pc[p] = "rev_sessions", keys[p] = {}
  PROVE  item[p] \in ended /\ Bare(item[p])
<1>1. item[p] \in ended
  BY DEF AgeInv, AgeAt, Marked
<1>2. \A n \in Gen : session[<<item[p], n>>] = None
  BY DEF ClearInv, ClearAt
<1> QED BY <1>1, <1>2 DEF Bare

LEMMA SweepNext ==
  IInv /\ AgeInv /\ SweepInv /\ (Lasting => ClearInv) /\ NoSignInMeanwhile /\ [Next]_vars => SweepInv'
<1> SUFFICES ASSUME IInv, AgeInv, SweepInv, Lasting => ClearInv, NoSignInMeanwhile, [Next]_vars PROVE SweepInv'
  OBVIOUS
<1>1. Done \subseteq Done'
  BY EndedIsDead, EndedGrows, DoneStays
<1>2. \A p \in Proc : pc[p] = "rev_sessions" /\ keys[p] = {} => item[p] \in Done
  BY ReturnedBare DEF Done, AgeInv, AgeAt, Marked
<1>3. ASSUME NEW p \in Proc, Start(p) \/ Step(p) PROVE SweepInv'
  BY <1>1, <1>2, <1>3, StartSweeps, IssueSweep, AccessSweep, RefreshSweep, RevokeSweep, AllSweep, ExceptSweep,
     ProjectSweep DEF Step
<1>4. ASSUME NEW p \in Proc, Crash(p) PROVE SweepInv'
  <2>1. UNCHANGED <<held, ufam, swept>> /\ Finish(p) /\ LocalOK
    BY <1>4 DEF Crash, redis, jwt, hist, IInv, TypeOK
  <2> QED BY <1>1, <2>1, FinishSweep, FinishApart, InertSweep
<1>5. CASE Environment
  BY <1>1, <1>5, EnvironmentSweep
<1>6. CASE UNCHANGED vars
  <2>1. UNCHANGED <<held, ufam, swept, local, pc>>
    BY <1>6 DEF vars, redis, jwt, hist
  <2>2. \A q \in Proc : SweepAt(q)'
    BY <1>1, <2>1, SameDelivered, OtherSweep DEF SweepInv, local, ctx, rev, loop
  <2> QED BY <1>1, <2>1, <2>2, SameDelivered DEF SweepInv, Listed
<1> QED BY <1>3, <1>4, <1>5, <1>6 DEF Next

LEMMA SweepsHold ==
  Spec /\ []NoSignInMeanwhile => [](IInv /\ AgeInv /\ SweepInv /\ (Lasting => ClearInv))
<1>1. Spec => [](IInv /\ AgeInv)
  <2>1. Spec => []IInv
    BY Invariance
  <2> QED BY <2>1, AgeInit, AgeNext, PTL DEF Spec
<1>2. Init => SweepInv /\ (Lasting => ClearInv)
  BY SweepInit, ClearInit
<1>3. IInv /\ AgeInv /\ SweepInv /\ (Lasting => ClearInv) /\ NoSignInMeanwhile /\ [Next]_vars
        => (SweepInv /\ (Lasting => ClearInv))'
  <2>1. ASSUME Lasting, IInv, AgeInv, SweepInv, ClearInv, [Next]_vars PROVE ClearInv'
    BY <2>1, ClearNext
  <2> QED BY <2>1, SweepNext DEF Lasting
<1> QED BY <1>1, <1>2, <1>3, PTL DEF Spec

\* A password reset, a deactivation and a password change that have returned ended
\* every family they were called to end (revoke_user_auth_state and
\* revoke_user_auth_state_except_current in auth_lifecycle.py), provided no sign-in of
\* the user enters the family index while a full sweep goes through what it read of it:
\* that sweep deletes the index at its end, and with it the only trace of the newcomer.
THEOREM SweepsEndFamilies == Spec /\ []NoSignInMeanwhile => []SweptIsEnded
<1>1. SweepInv => SweptIsEnded
  BY DEF SweepInv, SweptIsEnded, Done
<1> QED BY <1>1, SweepsHold, PTL

\* Handler p wrote the tombstone of family f and has sessions of it to look for.
Clearing(p, f) == item[p] = f /\ pc[p] \in {"rev_anchor", "rev_index", "rev_sessions"}

TombInv == \A f \in tomb : Bare(f) \/ \E p \in Proc : Clearing(p, f)

\* No handler dies between the tombstone and the last session it has to delete.
Unbroken ==
    \A p \in Proc : pc[p] \in {"rev_anchor", "rev_index"} \/ (pc[p] = "rev_sessions" /\ keys[p] # {})
                      => pc'[p] # "idle"

LEMMA ClearingGoesOn ==
  ASSUME IInv, AgeInv, ClearInv, Dead, [Next]_vars, Unbroken, NEW f, NEW p \in Proc, Clearing(p, f)
  PROVE  Clearing(p, f)' \/ (f \in ended /\ Bare(f))
<1>1. LocalOK /\ pc[p] \in {"rev_anchor", "rev_index", "rev_sessions"} /\ item[p] = f
  BY DEF IInv, TypeOK, Clearing
<1>2. pc[p] = "rev_sessions" /\ keys[p] = {} => f \in ended /\ Bare(f)
  BY <1>1, ReturnedBare
<1>3. ASSUME NEW q \in Proc, q # p, Start(q) \/ Step(q) \/ Crash(q) PROVE Clearing(p, f)'
  BY <1>1, <1>3, ActsAlone DEF Apart, Clearing
<1>4. ASSUME Crash(p) PROVE pc[p] = "rev_sessions" /\ keys[p] = {}
  BY <1>1, <1>4 DEF Crash, Finish, LocalOK, Unbroken
<1>5. ~Start(p)
  BY <1>1 DEF Start, Login, PlatformLogin, SignIn, Validate, Logout, ChangePassword, Refresh, SwitchProject, Arrive,
     ResetPassword, Deactivate, StartSweep, RemoveAccess
<1>6. ASSUME Step(p) PROVE RevokeSteps(p)
  <2>1. ~IssueSteps(p) /\ ~AccessSteps(p)
    BY <1>1 DEF IssueSteps, IssueSession, IssueFamily, IssueToken, IssueAnchor, IssueSessionsIndex, IssueFamiliesIndex,
       AccessSteps, AccessSession, AccessFamily, IsRevoked, LoadActiveUser, ReconstructContext, Accepted, Goto
  <2>2. ~RefreshSteps(p)
    BY <1>1 DEF RefreshSteps, RefreshFamilyRecord, RefreshTokenRecord, IsRevoked, RefreshSession, RefreshAnchor,
       LoadActiveUser, ReconstructContext, RefreshWatch, RefreshExec, Rotated, ClassifyFamily, ClassifyToken,
       ClassifyDecide, Goto
  <2>3. ~AllSteps(p) /\ ~ExceptSteps(p) /\ ~ProjectSteps(p)
    BY <1>1 DEF AllSteps, AllSessions, AllDelete, AllFamilies, AllRevoke, AllClear, ScanDelete, ScanReturn,
       ExceptSteps, ExceptSessions, ExceptSession, ExceptDrop, ExceptFamilies, ExceptFamily, ExceptRemove, ExceptReturn,
       ProjectSteps, ProjectSessions, ProjectSession, ProjectDrop, ProjectReturn, Goto
  <2> QED BY <1>6, <2>1, <2>2, <2>3 DEF Step
<1>7. ASSUME RevokeSteps(p) PROVE Clearing(p, f)' \/ (pc[p] = "rev_sessions" /\ keys[p] = {})
  BY <1>1, <1>7 DEF RevokeSteps, RevokeFamily, RevokeMark, RevokeTomb, RevokeAnchor, RevokeIndex, RevokeSession,
     RevokeReturn, Goto, LocalOK, Clearing, local, rev
<1>8. CASE Environment
  BY <1>1, <1>8, EnvironmentApart DEF Clearing, local, rev
<1>9. CASE UNCHANGED vars
  BY <1>1, <1>9 DEF vars, local, rev, Clearing
<1> QED BY <1>2, <1>3, <1>4, <1>5, <1>6, <1>7, <1>8, <1>9 DEF Next

LEMMA TombSteps ==
  ASSUME LocalOK, [Next]_vars
  PROVE  \A f \in tomb' : f \in tomb \/ \E p \in Proc : Clearing(p, f)'
<1>1. ASSUME NEW p \in Proc, RevokeTomb(p) PROVE tomb' = tomb \cup {item[p]} /\ Clearing(p, item[p])'
  <2>1. tomb' = tomb \cup {item[p]} /\ item' = item /\ pc'[p] = "rev_anchor"
    BY <1>1 DEF RevokeTomb, Goto, LocalOK, local, rev
  <2> QED BY <2>1 DEF Clearing
<1>2. ASSUME NEW p \in Proc, Step(p), ~RevokeTomb(p) PROVE tomb' = tomb
  <2>1. CASE IssueSteps(p) \/ AccessSteps(p)
    BY <2>1 DEF IssueSteps, IssueSession, IssueFamily, IssueToken, IssueAnchor, IssueSessionsIndex, IssueFamiliesIndex,
       AccessSteps, AccessSession, AccessFamily, IsRevoked, LoadActiveUser, ReconstructContext, Accepted, redis
  <2>2. CASE RefreshSteps(p)
    BY <2>2 DEF RefreshSteps, RefreshFamilyRecord, RefreshTokenRecord, IsRevoked, RefreshSession, RefreshAnchor,
       LoadActiveUser, ReconstructContext, RefreshWatch, RefreshExec, Rotated, ClassifyFamily, ClassifyToken,
       ClassifyDecide, redis
  <2>3. CASE RevokeSteps(p)
    BY <1>2, <2>3 DEF RevokeSteps, RevokeFamily, RevokeMark, RevokeAnchor, RevokeIndex, RevokeSession, RevokeReturn, redis
  <2>4. CASE AllSteps(p) \/ ExceptSteps(p) \/ ProjectSteps(p)
    BY <2>4 DEF AllSteps, AllSessions, AllDelete, AllFamilies, AllRevoke, AllClear, ScanDelete, ScanReturn,
       ExceptSteps, ExceptSessions, ExceptSession, ExceptDrop, ExceptFamilies, ExceptFamily, ExceptRemove, ExceptReturn,
       ProjectSteps, ProjectSessions, ProjectSession, ProjectDrop, ProjectReturn, redis
  <2> QED BY <1>2, <2>1, <2>2, <2>3, <2>4 DEF Step
<1>3. ASSUME NEW p \in Proc, Start(p) \/ Crash(p) PROVE tomb' = tomb
  BY <1>3 DEF Start, Login, PlatformLogin, SignIn, Validate, Logout, ChangePassword, Refresh, SwitchProject, Arrive,
     ResetPassword, Deactivate, StartSweep, RemoveAccess, Crash, redis
<1>4. CASE Environment
  BY <1>4 DEF Environment, SessionExpires, TokenExpires, GraceEnds, FamilyExpires, Grant, redis
<1>5. CASE UNCHANGED vars
  BY <1>5 DEF vars, redis
<1>6. ASSUME NEW p \in Proc, RevokeTomb(p) PROVE \A f \in tomb' : f \in tomb \/ \E q \in Proc : Clearing(q, f)'
  <2>1. \A f \in tomb' : f \in tomb \/ f = item[p]
    BY <1>1, <1>6
  <2>2. \A f : f = item[p] => Clearing(p, f)'
    <3>1. pc'[p] = "rev_anchor" /\ item'[p] = item[p]
      BY <1>6 DEF RevokeTomb, Goto, LocalOK, local, rev
    <3> QED BY <3>1 DEF Clearing
  <2> QED BY <2>1, <2>2
<1> QED BY <1>2, <1>3, <1>4, <1>5, <1>6 DEF Next

LEMMA TombNext ==
  ASSUME Lasting PROVE IInv /\ AgeInv /\ ClearInv /\ TombInv /\ [Next]_vars /\ [Unbroken]_vars => TombInv'
<1> SUFFICES ASSUME IInv, AgeInv, ClearInv, TombInv, [Next]_vars, [Unbroken]_vars, NEW f \in tomb'
             PROVE  Bare(f)' \/ \E p \in Proc : Clearing(p, f)'
  BY DEF TombInv
<1>1. Dead /\ tomb \subseteq ended /\ LocalOK
  BY EndedIsDead DEF AgeInv, AgeStore, IInv, TypeOK
<1>2. f \in ended /\ Bare(f) => Bare(f)'
  BY <1>1 DEF Dead, Bare
<1>3. CASE f \in tomb /\ Bare(f)
  BY <1>1, <1>2, <1>3
<1>4. CASE f \in tomb /\ ~Bare(f)
  <2>1. PICK p \in Proc : Clearing(p, f)
    BY <1>4 DEF TombInv
  <2>2. CASE Unbroken
    BY <1>1, <1>2, <2>1, <2>2, ClearingGoesOn
  <2>3. CASE UNCHANGED vars
    BY <2>1, <2>3 DEF vars, local, rev, Clearing
  <2> QED BY <2>1, <2>2, <2>3
<1>5. CASE f \notin tomb
  BY <1>1, <1>5, TombSteps
<1> QED BY <1>3, <1>4, <1>5

\* When revoke_refresh_family is done with a family, none of its access sessions is
\* left, whichever rotation had stored it meanwhile: the current session is the one the
\* copy names or is in the index of the user.  Three things take that away, and the
\* theorem excludes them: a record that runs out before its sessions and no longer says
\* whose they are, a full sweep that deletes the index under a sign-in, and a handler
\* that dies between the tombstone and the last DEL.
THEOREM RevocationsClear ==
  ASSUME Lasting
  PROVE  Spec /\ []NoSignInMeanwhile /\ [][Unbroken]_vars => []RevocationClearsSessions
<1>1. Init => TombInv
  BY DEF Init, TombInv
<1>2. IInv /\ AgeInv /\ ClearInv /\ TombInv /\ [Next]_vars /\ [Unbroken]_vars => TombInv'
  BY TombNext
<1>3. TombInv => RevocationClearsSessions
  BY DEF TombInv, RevocationClearsSessions, Bare, Clearing, Revoking
<1>4. Spec /\ []NoSignInMeanwhile => [](IInv /\ AgeInv /\ ClearInv)
  <2>1. IInv /\ AgeInv /\ SweepInv /\ (Lasting => ClearInv) => IInv /\ AgeInv /\ ClearInv
    OBVIOUS
  <2> QED BY <2>1, SweepsHold, PTL
<1> QED BY <1>1, <1>2, <1>3, <1>4, PTL DEF Spec
=============================================================================
