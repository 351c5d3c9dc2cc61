\* Two requests in flight, every operation, two accounts.
SPECIFICATION Spec
CONSTANTS
    root = root
    alice = alice
    student = student
    r1 = r1
    r2 = r2
    Users = {root, alice}
    Root = root
    Demo = {alice}
    Operators = {root, alice}
    Requests = {r1, r2}
    Ops = {"create", "grantAdmin", "revokeAdmin", "activate", "deactivate", "delete", "restore", "resetUser", "resetAll", "seed"}
    BootstrapConfigured = FALSE
SYMMETRY Symmetry
INVARIANTS TypeOK SystemUsersProtected
PROPERTIES LastAdminLostOnlyUnchecked NoSelfRemoval
