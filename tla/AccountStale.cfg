\* Two forms, and two requests that save old copies of the row.
SPECIFICATION Spec
CONSTANTS
    Clients = {c1, c2}
    Requests = {r1, r2}
    Nobody = Nobody
    MaxFailed = 2
    MaxEdits = 2
INVARIANT
    StaleEditRejected
CHECK_DEADLOCK FALSE
