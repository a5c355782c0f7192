-------------------------- MODULE MCAuthLifecycle --------------------------
(***************************************************************************)
(* Small instances of AuthLifecycle.  Every configuration names its users, *)
(* families, projects and handlers; the definitions below say whose family *)
(* is whose and which operations each handler runs.                        *)
(***************************************************************************)
EXTENDS AuthLifecycle

CONSTANTS p1, p2, p3

\* All families belong to one user: everything competes for the same indexes.
AnyUser  == CHOOSE u \in User : TRUE
OneOwner == [f \in Family |-> AnyUser]

Roles(r1, r2, r3) == [p \in Proc |-> IF p = p1 THEN r1
                                     ELSE IF p = p2 THEN r2 ELSE r3]

\* Duplicates of a refresh race each other.
RefreshRoles == Roles({"login", "refresh"}, {"refresh"}, {})
\* Rotation and validation against the ways of ending one family.
RevokeRoles == Roles({"login", "refresh"}, {"validate", "logout"},
                     {"deactivate"})
\* The caller changes the password while others sign in, refresh and log out.
ChangeRoles == Roles({"login", "refresh"}, {"password_change"}, {})
\* Sign-ins never overlap a sweep of the same user.
ResetRoles == Roles({"login", "password_reset"}, {"refresh"}, {})
\* Moving between projects while access is taken away and given back.
SwitchRoles == Roles({"login", "switch"}, {"refresh", "remove_access"}, {})
\* A sign-in overlaps a sweep, and a second sweep follows.
IndexRoles == Roles({"login"}, {"password_reset"}, {})
=============================================================================
