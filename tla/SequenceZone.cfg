\* Three transactions of one draw each, two periods, and one change of the
\* company's zone.
SPECIFICATION Spec
CONSTANTS
    quotation = quotation
    salesOrder = salesOrder
    Txns = {t1, t2, t3}
    Sequences = {quotation}
    Starts <- PeriodStarts
    Zones = {0, 2}
    None = None
    MaxDraws = 1
    MaxTime = 2
    MaxZoneChanges = 1
INVARIANT
    NumbersUnique
CHECK_DEADLOCK FALSE
