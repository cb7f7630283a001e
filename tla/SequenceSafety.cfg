\* Three transactions over two sequences, across the start of a period, while the
\* company's settings are saved once without a change of its time zone.
SPECIFICATION FairSpec
CONSTANTS
    quotation = quotation
    salesOrder = salesOrder
    Txns = {t1, t2, t3}
    Sequences = {quotation, salesOrder}
    Starts <- PeriodStarts
    Zones = {1}
    None = None
    MaxDraws = 2
    MaxTime = 2
    MaxZoneChanges = 1
INVARIANTS
    TypeOK
    NumbersUnique
    GapFree
PROPERTIES
    IssuedInOrder
    TransactionsEnd
\* Every transaction may have ended.
CHECK_DEADLOCK FALSE
