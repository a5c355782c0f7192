----------------------------- MODULE MCApiKeys -----------------------------
(* Instances of ApiKeys for TLC: root r, admin a of project p, the users c, *)
(* owner of k1 for p, and d, owner of k2 for q.  Only one of the two is     *)
(* active, so that a behaviour is about one key.                            *)
EXTENDS ApiKeys, TLC
CONSTANTS r, a, c, d, p, q, k1, k2

MCOwner == (k1 :> c) @@ (k2 :> d)
MCHome  == (k1 :> p) @@ (k2 :> q)
MCScope == (r :> {}) @@ (a :> {p}) @@ (c :> {}) @@ (d :> {})

MCInit == Init /\ access = {<<a, p>>, <<c, p>>, <<d, p>>, <<d, q>>} /\ uact \in {{r, a, c}, {r, a, d}}
MCSpec == MCInit /\ [][Next]_vars
MCFairSpec == MCSpec /\ Fairness
=============================================================================
