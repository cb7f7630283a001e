\* Two requests at once where there are no roles: accounts change, and their flags.
SPECIFICATION FairSpec
CONSTANTS
    Users = {u1, u2, u3}
    Roles = {}
    Requests = {q1, q2}
    None = None
    MaxOpen = 2
INVARIANTS
    AdministratorRemains
PROPERTIES
    RequestsEnd
\* Every request may be done.
CHECK_DEADLOCK FALSE
