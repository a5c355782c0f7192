SPECIFICATION Spec
CONSTANTS
    r = r
    a = a
    b = b
    p = p
    q = q
    ap = ap
    aq = aq
    g = g
    dp = dp
    dq = dq
    x = x
    k = k
    h = h
    m = m
    v = v
    Users = {r, a, b}
    Projects = {p, q}
    UGroups = {ap, aq, g}
    PGroups = {dp, dq, x}
    Plain = Plain
    NoProject = NoProject
    Readers = {a, b}
    UserLists = {{a, b}}
    GroupLists = {{ap, g}}
    ProjectLists = {{q}, {p, q}}
    MaxWrites = 2
    MaxReqs = 1
    Roles = {k}
    PermGroups = {h}
    Perms = {m, v}
    Reserved = {m}
    ManageRoles = m
    AdminPermission = m
    SystemRoles = {}
    NoRole = NoRole
    RoleLists <- Lists
    PermGroupLists = {{h}}
    MaxAsks = 2
INVARIANTS SessionsFollowAccess SeenInScope ReadsFollowRows
PROPERTIES GrantsInScope AuthorityIsRoots
CHECK_DEADLOCK FALSE
