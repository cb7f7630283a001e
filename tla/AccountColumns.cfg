\* A form, two requests of the user it edits, two browsers with sessions, and
\* another user who signs in.
SPECIFICATION SessionSpec
CONSTANTS
    Clients = {c1}
    Requests = {r1, r2}
    Nobody = Nobody
    MaxFailed = 2
    MaxEdits = 1
    Visits = {v1, v2}
    Others = {o1}
    Keys = {k1, k2, k3}
    Foreign = Foreign
    NoKey = NoKey
SYMMETRY Symmetry
INVARIANTS
    SessionTypeOK
    ColumnsKept
    RevocationIsImmediate
    SignInsRecorded
    SessionsEndForCause
PROPERTY
    SignOutFinal
\* After MaxEdits edits the forms rest.
CHECK_DEADLOCK FALSE
