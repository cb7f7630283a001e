\* Changes of accounts, assignments and roles, one transaction at a time.
SPECIFICATION Spec
CONSTANTS
    Users = {u1, u2}
    Roles = {r1}
    Requests = {q1, q2, q3}
    None = None
    MaxOpen = 1
SYMMETRY EachAlike
INVARIANTS
    TypeOK
    AdministratorRemains
\* Every request may be done.
CHECK_DEADLOCK FALSE
