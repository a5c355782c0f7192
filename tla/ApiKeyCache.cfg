SPECIFICATION MCFairSpec
CONSTANTS
    r = r  a = a  c = c  d = d  p = p  q = q  k1 = k1  k2 = k2
    Users = {r, a, c, d}
    Projects = {p, q}
    Keys = {k1, k2}
    Owner <- MCOwner
    Home <- MCHome
    Roots = {r}
    Admins = {a}
    Scope <- MCScope
    Managers = {}
    MaxChecks = 2
    MaxEdits = 2
    MaxChanges = 1
CHECK_DEADLOCK FALSE
INVARIANTS CacheFollowsRows ListingsAreTrue
PROPERTIES RevokedKeyDies
