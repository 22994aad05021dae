SPECIFICATION Spec
CONSTANTS
    u1 = u1
    u2 = u2
    r1 = r1
    r2 = r2
    r3 = r3
    w1 = w1
    w2 = w2
    Idle = Idle
    Users = {u1, u2}
    Roles = {r1, r2, r3}
    Workers = {w1}
    Names = {"super-admin", "operator", "custom"}
    Perms <- AllPerms
    Default <- Seeded
    PermChoices <- SomePerms
    RoleChoices <- SomeRoles
INVARIANTS TypeOK SuperRoleIntact
PROPERTIES OnlySuperMakesSuper LastSuperAdminKept
SYMMETRY Symmetry
