\* Two releases, two runs of bootstrap_client, two accounts and three roles, two
\* time zones and the turn of a year.
SPECIFICATION Spec
CONSTANTS
    Retired <- MCRetired
    Added <- MCAdded
    Users = {u1, u2}
    OwnRoles <- MCOwn
    BuiltinPlayed <- MCBuiltin
    Choices <- MCChoices
    Grants <- MCGrants
    Currencies <- MCCurrencies
    Quantum <- MCQuantum
    Sequences <- MCSequences
    Zones = {0, 1}
    Starts <- MCStarts
    Forms = {f1}
    Amounts <- MCAmounts
    MaxRelease = 1
    MaxRuns = 2
    MaxChanges = 2
    MaxDraws = 3
    MaxTime = 1
SYMMETRY Symmetry
INVARIANTS
    TypeOK
    EnvironmentComplete
    DecidersAreGranted
    HistoryKept
    CompanyFormsFresh
PROPERTY
    HousekeepingOnly
\* When the bounds are reached the environment rests.
CHECK_DEADLOCK FALSE
