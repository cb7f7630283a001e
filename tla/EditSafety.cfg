\* Two roles, either of which may be new, and two saves; a lost answer, another
\* administrator and the history of the tab.
SPECIFICATION FairSpec
CONSTANTS
    Roles = {x1, x2}
    Saves = {s1, s2}
    None = None
    New = New
    Elsewhere = Elsewhere
    MaxTexts = 3
    MaxVisits = 2
INVARIANTS
    TypeOK
    FormShowsItsRole
PROPERTIES
    NoLostUpdate
    ConflictsAreOthers
    ScreenSettles
\* The user may be done.
CHECK_DEADLOCK FALSE
