\* Two requests and the seed, a role and a permission beside the earlier ones.
SPECIFICATION Spec
CONSTANTS
    r1 = r1
    r2 = r2
    p1 = p1
    p2 = p2
    u1 = u1
    s1 = s1
    s2 = s2
    admin = admin
    editor = editor
    first = first
    added = added
    RoleIds = {r1, r2}
    PermissionIds = {p1, p2}
    RoleNames = {admin, editor}
    PermissionNames = {first, added}
    DefaultRoles = {admin}
    DefaultPermissions = {first, added}
    DefaultGrants <- MCGrants
    EarlierRoles = {admin}
    EarlierPermissions = {first}
    Users = {u1}
    SeededUsers <- MCSeededUsers
    Slots = {s1, s2}
    None = None
SYMMETRY Symmetry
INVARIANTS TypeOK DefaultsInForce
PROPERTIES DeletionsRevokeNothing SeedOnlyAdds TitlesKept
