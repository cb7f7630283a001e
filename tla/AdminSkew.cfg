\* Two requests at once that may change assignments and roles too.
SPECIFICATION Spec
CONSTANTS
    Users = {u1, u2}
    Roles = {r1}
    Requests = {q1, q2}
    None = None
    MaxOpen = 2
INVARIANTS
    AdministratorRemains
CHECK_DEADLOCK FALSE
