\* Liveness, one request at a time beside the seed and the catalog.
SPECIFICATION FairSpec
CONSTANTS
    student = student
    admin = admin
    secret1 = secret1
    secret2 = secret2
    r1 = r1
    r2 = r2
    Grants = {student, admin}
    SeededGrants = student
    OwnPasswords = {secret1}
    AccessTtl = 1
    MaxTokens = 1
    Requests = {r1}
    Ops = {"login", "refresh", "logout", "changePassword", "resetPassword", "activate", "deactivate", "delete", "restore", "updateRoles", "reset", "seed", "catalog"}
    Failures = TRUE
PROPERTIES TokensCatchUp ClosedOutAtLast
