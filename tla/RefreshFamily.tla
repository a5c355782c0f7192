--------------------------- MODULE RefreshFamily ---------------------------
(***************************************************************************)
(* What a refresh-token family promises to the rest of the service,        *)
(* whatever Redis commands implement it (src/Util/auth_lifecycle.py):      *)
(*                                                                         *)
(*  - a family is issued once, by a sign-in;                               *)
(*  - while it is live exactly one refresh token can be exchanged, and     *)
(*    exchanging it makes its successor the only one that can be;          *)
(*  - a family that has ended never rotates and never comes back.          *)
(*                                                                         *)
(* AuthLifecycle implements this specification: see AuthLifecycle!Promise. *)
(***************************************************************************)
EXTENDS Naturals

CONSTANTS Family,    \* refresh family ids
          MaxGen     \* bound on the token pairs minted in one family

VARIABLES phase,     \* phase[f]: "unborn", "live" or "ended"
          current,   \* current[f]: the generation that may be exchanged
          spent      \* spent[f]: the generations already exchanged

vars == <<phase, current, spent>>

Init ==
    /\ phase = [f \in Family |-> "unborn"]
    /\ current = [f \in Family |-> 0]
    /\ spent = [f \in Family |-> {}]

Issue(f) ==
    /\ phase[f] = "unborn"
    /\ phase' = [phase EXCEPT ![f] = "live"]
    /\ current' = [current EXCEPT ![f] = 1]
    /\ UNCHANGED spent

Exchange(f) ==
    /\ phase[f] = "live"
    /\ current[f] < MaxGen
    /\ current[f] \notin spent[f]
    /\ spent' = [spent EXCEPT ![f] = @ \cup {current[f]}]
    /\ current' = [current EXCEPT ![f] = @ + 1]
    /\ UNCHANGED phase

End(f) ==
    /\ phase[f] = "live"
    /\ phase' = [phase EXCEPT ![f] = "ended"]
    /\ UNCHANGED <<current, spent>>

Next == \E f \in Family : Issue(f) \/ Exchange(f) \/ End(f)

Spec == Init /\ [][Next]_vars
=============================================================================
