\* One request at a time that runs to its end, no seed and no catalog change.
SPECIFICATION Spec
CONSTANTS
    student = student
    admin = admin
    secret1 = secret1
    secret2 = secret2
    r1 = r1
    r2 = r2
    Grants = {student, admin}
    SeededGrants = student
    OwnPasswords = {secret1, secret2}
    AccessTtl = 1
    MaxTokens = 1
    Requests = {r1}
    Ops = {"login", "refresh", "logout", "changePassword", "resetPassword", "activate", "deactivate", "delete", "restore", "updateRoles", "reset"}
    Failures = FALSE
INVARIANT SessionFitsAccount
PROPERTY ChangeVerifiesCurrent
